---- MODULE Spec2Model ----
(***************************************************************************)
(* Wall framing core of the CAD geometry engine:                           *)
(*   - RegenerationManager (framing/regeneration.rs): the dirty-wall set   *)
(*     and the opening -> wall map, with every public operation;           *)
(*   - FramingGenerator (framing/generator.rs) and the framing value types *)
(*     (domain/framing.rs).                                                *)
(* Lengths are fixed-point: one unit is 1/8 inch, so 1.5in = 12,           *)
(* 3.5in = 28, 7.25in = 58, 11.875in = 95.                                 *)
(***************************************************************************)
EXTENDS Integers, Sequences, FiniteSets, TLC

VARIABLES
    dirty_walls,        \* RegenerationManager.dirty_walls : HashSet<WallId>
    opening_wall_map,   \* RegenerationManager.opening_wall_map : HashMap<OpeningId, WallId>
    prev,               \* the manager as it was before the last call
    last,               \* the last call on the manager: operation, arguments, return value
    only_wall,          \* the run of invalidate_wall(id) calls a fresh manager has seen, if nothing else
    sched_pc,           \* the scheduler's next step: "poll", "generate" or "mark_clean"
    sched_wall,         \* the dirty wall the scheduler is working on
    wall_rev,           \* per wall: how many edits its inputs have had
    layout_rev,         \* per wall: the revision of the inputs its layout was generated from
    regenerated,        \* the walls the scheduler has run the generator for
    edits_done,         \* how many edits the session has made
    in_wall,            \* the Wall handed to the generator
    in_assembly,        \* the WallAssembly handed to the generator
    in_openings,        \* the Opening slice handed to the generator
    gen_pc,             \* which generator call comes next
    out_framing,        \* what generate_wall_framing returned
    out_rough,          \* what compute_rough_opening returned, per opening of the slice
    again_assembly,     \* the WallAssembly handed to a second generate_wall_framing call
    again_openings,     \* the Opening slice handed to the second call
    again_framing,      \* what the second call returned
    in_span,            \* the span handed to size_header and size_header_lumber
    in_is_load_bearing, \* the load-bearing flag handed to them
    out_header_type,    \* what size_header returned
    out_header_lumber   \* what size_header_lumber returned

\* ------------------------------------------------------------------ bounds

NumWalls == 2
NumOpenings == 2
\* How many edits (invalidations) a session makes before they stop arriving.
MaxEdits == 3
\* How long a run of repeated invalidate_wall calls is counted.
MaxRepeat == 3
\* How many openings a slice handed to the generator holds at most.
MaxOpenings == 2
\* The widest span, in inches, a header is sized for.
MaxSpanInches == 130

WallIds == 1..NumWalls
OpeningIds == 1..NumOpenings

\* Option::None of get_wall_for_opening, and the absent argument of a call record.
None == 0

\* --------------------------------------------------- RegenerationManager

\* The manager value: both fields of the struct.
Manager(d, m) == [dirty_walls |-> d, opening_wall_map |-> m]

\* HashMap::insert / HashMap::remove on a map kept as a function on its key set.
MapInsert(m, k, v) == [x \in (DOMAIN m) \cup {k} |-> IF x = k THEN v ELSE m[x]]
MapRemove(m, k) == [x \in (DOMAIN m) \ {k} |-> m[x]]

\* RegenerationManager::new
new == Manager({}, << >>)

\* invalidate_wall as a toggle: a second call for a dirty wall takes it out again.
invalidate_wall_toggle(self, wall_id) ==
    IF wall_id \in self.dirty_walls
    THEN Manager(self.dirty_walls \ {wall_id}, self.opening_wall_map)
    ELSE Manager(self.dirty_walls \cup {wall_id}, self.opening_wall_map)

invalidate_wall(self, wall_id) ==
    Manager(self.dirty_walls \cup {wall_id}, self.opening_wall_map)

\* invalidate_opening that also dirties the wall the opening was mapped to before.
invalidate_opening_both_walls(self, opening_id, wall_id) ==
    Manager(self.dirty_walls \cup {wall_id}
                \cup {self.opening_wall_map[o] : o \in {opening_id} \cap DOMAIN self.opening_wall_map},
            MapInsert(self.opening_wall_map, opening_id, wall_id))

invalidate_opening(self, opening_id, wall_id) ==
    Manager(self.dirty_walls \cup {wall_id},
            MapInsert(self.opening_wall_map, opening_id, wall_id))

\* invalidate_opening_by_id that reports success without looking the opening up.
invalidate_opening_by_id_always_true(self, opening_id) ==
    IF opening_id \in DOMAIN self.opening_wall_map
    THEN [mgr |-> Manager(self.dirty_walls \cup {self.opening_wall_map[opening_id]},
                          self.opening_wall_map),
          ret |-> TRUE]
    ELSE [mgr |-> self, ret |-> TRUE]

\* Returns the manager after the call and the bool the call returns.
invalidate_opening_by_id(self, opening_id) ==
    IF opening_id \in DOMAIN self.opening_wall_map
    THEN [mgr |-> Manager(self.dirty_walls \cup {self.opening_wall_map[opening_id]},
                          self.opening_wall_map),
          ret |-> TRUE]
    ELSE [mgr |-> self, ret |-> FALSE]

\* remove_opening that drops the mapping and forgets to dirty the wall.
remove_opening_no_dirty(self, opening_id) ==
    Manager(self.dirty_walls, MapRemove(self.opening_wall_map, opening_id))

remove_opening(self, opening_id) ==
    IF opening_id \in DOMAIN self.opening_wall_map
    THEN Manager(self.dirty_walls \cup {self.opening_wall_map[opening_id]},
                 MapRemove(self.opening_wall_map, opening_id))
    ELSE self

get_dirty_walls(self) == self.dirty_walls

has_dirty_walls(self) == ~(self.dirty_walls = {})

is_wall_dirty(self, wall_id) == wall_id \in self.dirty_walls

dirty_count(self) == Cardinality(self.dirty_walls)

\* mark_clean that leaves the wall in the dirty set.
mark_clean_keeps(self, wall_id) == self

mark_clean(self, wall_id) ==
    Manager(self.dirty_walls \ {wall_id}, self.opening_wall_map)

\* clear that also forgets the opening-to-wall mappings.
clear_forgets_openings(self) == Manager({}, << >>)

clear(self) == Manager({}, self.opening_wall_map)

reset(self) == Manager({}, << >>)

\* register_opening that marks the wall dirty, as invalidate_opening does.
register_opening_dirties(self, opening_id, wall_id) ==
    Manager(self.dirty_walls \cup {wall_id},
            MapInsert(self.opening_wall_map, opening_id, wall_id))

register_opening(self, opening_id, wall_id) ==
    Manager(self.dirty_walls, MapInsert(self.opening_wall_map, opening_id, wall_id))

get_wall_for_opening(self, opening_id) ==
    IF opening_id \in DOMAIN self.opening_wall_map
    THEN self.opening_wall_map[opening_id]
    ELSE None

get_registered_openings(self) == DOMAIN self.opening_wall_map

get_openings_for_wall(self, wall_id) ==
    {o \in DOMAIN self.opening_wall_map : self.opening_wall_map[o] = wall_id}

\* ------------------------------------------------ framing value types

\* LumberSize::actual_dimensions: <<width, depth>>. A lumber size is a record
\* with its variant in `kind`; Custom carries its own width and depth.
actual_dimensions(lumber_size) ==
    CASE lumber_size.kind = "TwoByFour" -> <<12, 28>>
      [] lumber_size.kind = "TwoBySix" -> <<12, 44>>
      [] lumber_size.kind = "TwoByEight" -> <<12, 58>>
      [] lumber_size.kind = "TwoByTen" -> <<12, 74>>
      [] lumber_size.kind = "TwoByTwelve" -> <<12, 90>>
      [] lumber_size.kind = "FourByFour" -> <<28, 28>>
      [] lumber_size.kind = "FourBySix" -> <<28, 44>>
      [] lumber_size.kind = "Custom" -> <<lumber_size.width, lumber_size.depth>>

Lumber(kind) == [kind |-> kind]
Custom(width, depth) == [kind |-> "Custom", width |-> width, depth |-> depth]

\* FramingMemberType::is_vertical
is_vertical(member_type) ==
    member_type \in {"Stud", "KingStud", "JackStud", "CrippleStud"}

\* for_span with every breakpoint exclusive.
for_span_exclusive(span, is_load_bearing) ==
    IF ~is_load_bearing
    THEN IF span < 48 * 8 THEN "DoubleLumber" ELSE "TripleLumber"
    ELSE IF span < 36 * 8 THEN "DoubleLumber"
         ELSE IF span < 60 * 8 THEN "TripleLumber"
         ELSE IF span < 96 * 8 THEN "LVL"
         ELSE "PSL"

\* HeaderType::for_span
for_span(span, is_load_bearing) ==
    IF ~is_load_bearing
    THEN IF span <= 48 * 8 THEN "DoubleLumber" ELSE "TripleLumber"
    ELSE IF span <= 36 * 8 THEN "DoubleLumber"
         ELSE IF span <= 60 * 8 THEN "TripleLumber"
         ELSE IF span <= 96 * 8 THEN "LVL"
         ELSE "PSL"

\* Point3 of a member's origin on a wall: the distance along the wall's centerline
\* from wall.start (x = start.x + dir_x * along, y = start.y + dir_y * along) and z.
Point3(along, z) == [along |-> along, z |-> z]

\* The two rotations the generator gives a member: 0.0, and the wall's own
\* direction angle atan2(dir_y, dir_x).
ZeroRotation == "zero"
WallRotation == "wall_rotation"

\* FramingMember::new (the fresh FramingMemberId is left out)
FramingMember(member_type, lumber_size, material, position, length, rotation, wall_id) ==
    [member_type |-> member_type,
     lumber_size |-> lumber_size,
     material |-> material,
     position |-> position,
     length |-> length,
     rotation |-> rotation,
     wall_id |-> wall_id,
     opening_id |-> None]

\* FramingMember::with_opening
with_opening(member, opening_id) == [member EXCEPT !.opening_id = opening_id]

\* FramingMember::board_feet, times 144 * 8^3: (width * depth / 12) * (length / 12)
\* with all three lengths in eighths of an inch.
board_feet(member) ==
    LET dims == actual_dimensions(member.lumber_size)
    IN dims[1] * dims[2] * member.length

\* for_window that gives a rough opening exactly 48in wide two jack studs.
for_window_two_jacks_at_48(opening_id, width, height, position_along_wall, is_load_bearing) ==
    [opening_id |-> opening_id,
     width |-> width + 8,
     height |-> height + 4,
     position_along_wall |-> position_along_wall,
     jack_stud_count |-> IF width + 8 >= 48 * 8 THEN 2 ELSE 1,
     header_depth |-> 58,
     header_type |-> IF ~is_load_bearing
                     THEN (IF width + 8 <= 48 * 8 THEN "DoubleLumber" ELSE "TripleLumber")
                     ELSE (IF width + 8 <= 36 * 8 THEN "DoubleLumber"
                           ELSE IF width + 8 <= 60 * 8 THEN "TripleLumber"
                           ELSE IF width + 8 <= 96 * 8 THEN "LVL"
                           ELSE "PSL"),
     requires_sill |-> TRUE]

\* RoughOpening::for_window
for_window(opening_id, width, height, position_along_wall, is_load_bearing) ==
    LET ro_width == width + 8
        ro_height == height + 4
    IN [opening_id |-> opening_id,
        width |-> ro_width,
        height |-> ro_height,
        position_along_wall |-> position_along_wall,
        jack_stud_count |-> IF ro_width > 48 * 8 THEN 2 ELSE 1,
        header_depth |-> 58,
        header_type |-> for_span(ro_width, is_load_bearing),
        requires_sill |-> TRUE]

\* for_door that asks for a sill.
for_door_requires_sill(opening_id, width, height, position_along_wall, is_load_bearing) ==
    [for_window(opening_id, width + 8, height, position_along_wall, is_load_bearing)
        EXCEPT !.requires_sill = TRUE]

\* RoughOpening::for_door
for_door(opening_id, width, height, position_along_wall, is_load_bearing) ==
    LET ro_width == width + 16
        ro_height == height + 4
    IN [opening_id |-> opening_id,
        width |-> ro_width,
        height |-> ro_height,
        position_along_wall |-> position_along_wall,
        jack_stud_count |-> IF ro_width > 48 * 8 THEN 2 ELSE 1,
        header_depth |-> 58,
        header_type |-> for_span(ro_width, is_load_bearing),
        requires_sill |-> FALSE]

\* FramingLayout::new
FramingLayout(wall_id, stud_spacing, lumber_size) ==
    [wall_id |-> wall_id,
     members |-> << >>,
     stud_spacing |-> stud_spacing,
     double_top_plate |-> TRUE,
     lumber_size |-> lumber_size,
     total_board_feet |-> 0,
     stud_count |-> 0]

\* FramingLayout::add_member
add_member(layout, member) ==
    [layout EXCEPT
        !.total_board_feet = @ + board_feet(member),
        !.stud_count = IF member.member_type = "Stud" THEN @ + 1 ELSE @,
        !.members = Append(@, member)]

RECURSIVE add_members(_, _)
\* `for m in members { layout.add_member(m) }`
add_members(layout, members) ==
    IF members = << >> THEN layout
    ELSE add_members(add_member(layout, Head(members)), Tail(members))

RECURSIVE SumBoardFeet(_)
SumBoardFeet(members) ==
    IF members = << >> THEN 0
    ELSE board_feet(Head(members)) + SumBoardFeet(Tail(members))

\* recalculate_totals that keeps the running totals of add_member.
recalculate_totals_skipped(layout) == layout

\* FramingLayout::recalculate_totals
recalculate_totals(layout) ==
    [layout EXCEPT
        !.total_board_feet = SumBoardFeet(layout.members),
        !.stud_count = Cardinality({i \in 1..Len(layout.members) :
            layout.members[i].member_type
                \in {"Stud", "KingStud", "JackStud", "CrippleStud"}})]

\* ------------------------------------------------------ FramingGenerator

\* Result<_, FramingError>: Ok carries the value, an error its variant and ids.
Ok(value) == [kind |-> "Ok", value |-> value]
InvalidWallDimensions(wall_id) == [kind |-> "InvalidWallDimensions", wall_id |-> wall_id]
OpeningTooLarge(opening_id) == [kind |-> "OpeningTooLarge", opening_id |-> opening_id]
OpeningOutOfBounds(opening_id) == [kind |-> "OpeningOutOfBounds", opening_id |-> opening_id]
OverlappingOpenings(opening_ids) ==
    [kind |-> "OverlappingOpenings", opening_ids |-> opening_ids]

\* x / 2.0
Half(x) == x \div 2

Abs(x) == IF x < 0 THEN -x ELSE x

Min(a, b) == IF a < b THEN a ELSE b

\* opening.position_along_wall * wall_length, the parametric position being
\* position_along_wall eighths of the wall.
AlongWall(position_along_wall, wall_length) == (position_along_wall * wall_length) \div 8

\* FramingGenerator::size_header
size_header(span, is_load_bearing) == for_span(span, is_load_bearing)

\* size_header_lumber with the load-bearing table for either value of the flag.
size_header_lumber_one_table(span, is_load_bearing) ==
    IF span <= 48 * 8 THEN Lumber("TwoBySix")
    ELSE IF span <= 72 * 8 THEN Lumber("TwoByEight")
    ELSE IF span <= 96 * 8 THEN Lumber("TwoByTen")
    ELSE IF span <= 120 * 8 THEN Lumber("TwoByTwelve")
    ELSE Custom(14, 95)

\* FramingGenerator::size_header_lumber
size_header_lumber(span, is_load_bearing) ==
    IF ~is_load_bearing
    THEN IF span <= 48 * 8 THEN Lumber("TwoBySix") ELSE Lumber("TwoByEight")
    ELSE IF span <= 48 * 8 THEN Lumber("TwoBySix")
         ELSE IF span <= 72 * 8 THEN Lumber("TwoByEight")
         ELSE IF span <= 96 * 8 THEN Lumber("TwoByTen")
         ELSE IF span <= 120 * 8 THEN Lumber("TwoByTwelve")
         ELSE Custom(14, 95)

\* FramingGenerator::header_material
header_material(header_type) ==
    CASE header_type \in {"DoubleLumber", "TripleLumber"} -> "SPF"
      [] header_type = "LVL" -> "LVL"
      [] header_type = "PSL" -> "PSL"
      [] header_type = "SteelLintel" -> "Steel"
      [] header_type = "Glulam" -> "DF"

\* compute_rough_opening that rejects an opening exactly as high as the wall.
compute_rough_opening_strict_height(opening, wall, config) ==
    LET position_along_wall == AlongWall(opening.position_along_wall, wall.length)
        ro == IF opening.opening_type = "Window"
              THEN for_window(opening.id, opening.width, opening.height,
                              position_along_wall, config.is_load_bearing)
              ELSE for_door(opening.id, opening.width, opening.height,
                            position_along_wall, config.is_load_bearing)
    IN IF ro.position_along_wall - Half(ro.width) < 0
          \/ ro.position_along_wall + Half(ro.width) > wall.length
       THEN OpeningOutOfBounds(opening.id)
       ELSE IF ro.height >= wall.height
            THEN OpeningTooLarge(opening.id)
            ELSE Ok(ro)

\* FramingGenerator::compute_rough_opening
compute_rough_opening(opening, wall, config) ==
    LET wall_length == wall.length
        position_along_wall == AlongWall(opening.position_along_wall, wall_length)
        ro == IF opening.opening_type = "Window"
              THEN for_window(opening.id, opening.width, opening.height,
                              position_along_wall, config.is_load_bearing)
              ELSE for_door(opening.id, opening.width, opening.height,
                            position_along_wall, config.is_load_bearing)
        ro_left == ro.position_along_wall - Half(ro.width)
        ro_right == ro.position_along_wall + Half(ro.width)
    IN IF ro_left < 0 \/ ro_right > wall_length
       THEN OpeningOutOfBounds(opening.id)
       ELSE IF ro.height > wall.height
            THEN OpeningTooLarge(opening.id)
            ELSE Ok(ro)

RECURSIVE collect_rough_openings(_, _, _, _)
\* The iterator chain of compute_all_rough_openings: filter on wall_id, map
\* compute_rough_opening, collect into a Result (the first Err ends it).
collect_rough_openings(wall, openings, config, acc) ==
    IF openings = << >> THEN Ok(acc)
    ELSE LET o == Head(openings)
         IN IF o.wall_id = wall.id
            THEN LET r == compute_rough_opening(o, wall, config)
                 IN IF r.kind = "Ok"
                    THEN collect_rough_openings(wall, Tail(openings), config,
                                                Append(acc, r.value))
                    ELSE r
            ELSE collect_rough_openings(wall, Tail(openings), config, acc)

\* compute_all_rough_openings without the filter on wall_id.
compute_all_rough_openings_every_wall(wall, openings, config) ==
    collect_rough_openings(wall,
        [i \in 1..Len(openings) |-> [openings[i] EXCEPT !.wall_id = wall.id]],
        config, << >>)

\* FramingGenerator::compute_all_rough_openings
compute_all_rough_openings(wall, openings, config) ==
    collect_rough_openings(wall, openings, config, << >>)

\* `let min_gap = 3.5`
min_gap == 28

\* The overlap test with the gap bound made inclusive: a gap of exactly min_gap fails.
TooCloseInclusive(ro1, ro2) ==
    /\ ro1.position_along_wall + Half(ro1.width) + min_gap
            >= ro2.position_along_wall - Half(ro2.width)
    /\ ro2.position_along_wall + Half(ro2.width) + min_gap
            >= ro1.position_along_wall - Half(ro1.width)

\* The `if` of validate_openings_no_overlap for one pair.
TooClose(ro1, ro2) ==
    LET ro1_left == ro1.position_along_wall - Half(ro1.width)
        ro1_right == ro1.position_along_wall + Half(ro1.width)
        ro2_left == ro2.position_along_wall - Half(ro2.width)
        ro2_right == ro2.position_along_wall + Half(ro2.width)
    IN ro1_right + min_gap > ro2_left /\ ro2_right + min_gap > ro1_left

\* FramingGenerator::validate_openings_no_overlap: the first pair (i, j), i < j,
\* in the order of the two nested loops.
validate_openings_no_overlap(rough_openings) ==
    LET n == Len(rough_openings)
        bad == {p \in (1..n) \X (1..n) :
                    p[1] < p[2] /\ TooClose(rough_openings[p[1]], rough_openings[p[2]])}
    IN IF bad = {} THEN Ok(TRUE)
       ELSE LET first == CHOOSE p \in bad :
                            \A q \in bad : p[1] < q[1] \/ (p[1] = q[1] /\ p[2] <= q[2])
            IN OverlappingOpenings(<<rough_openings[first[1]].opening_id,
                                     rough_openings[first[2]].opening_id>>)

\* position_in_opening against the rough opening itself, with no room for king studs.
position_in_opening_not_expanded(position, stud_width, rough_openings) ==
    \E i \in 1..Len(rough_openings) :
        /\ position >= rough_openings[i].position_along_wall - Half(rough_openings[i].width)
        /\ position <= rough_openings[i].position_along_wall + Half(rough_openings[i].width)

\* FramingGenerator::position_in_opening
position_in_opening(position, stud_width, rough_openings) ==
    \E i \in 1..Len(rough_openings) :
        LET ro == rough_openings[i]
            ro_left == ro.position_along_wall - Half(ro.width)
            ro_right == ro.position_along_wall + Half(ro.width)
            exclusion_left == ro_left - stud_width * 2
            exclusion_right == ro_right + stud_width * 2
        IN position >= exclusion_left /\ position <= exclusion_right

\* FramingGenerator::segment_entirely_in_opening
segment_entirely_in_opening(start, end, rough_openings) ==
    \E i \in 1..Len(rough_openings) :
        LET ro == rough_openings[i]
            ro_left == ro.position_along_wall - Half(ro.width)
            ro_right == ro.position_along_wall + Half(ro.width)
        IN start >= ro_left /\ end <= ro_right

\* generate_plates that never adds the double top plate.
generate_plates_single_top(wall, config, rotation) ==
    LET lumber_depth == actual_dimensions(config.lumber_size)[2]
    IN <<FramingMember("BottomPlate", config.lumber_size, "SPF",
            Point3(0, wall.base_offset), wall.length, rotation, wall.id),
         FramingMember("TopPlate", config.lumber_size, "SPF",
            Point3(0, wall.base_offset + wall.height - lumber_depth), wall.length,
            rotation, wall.id)>>

\* FramingGenerator::generate_plates
generate_plates(wall, config, rotation) ==
    LET wall_length == wall.length
        lumber_depth == actual_dimensions(config.lumber_size)[2]
        bottom_plate == FramingMember("BottomPlate", config.lumber_size, "SPF",
                            Point3(0, wall.base_offset), wall_length, rotation, wall.id)
        top_plate_z == wall.base_offset + wall.height - lumber_depth
        top_plate == FramingMember("TopPlate", config.lumber_size, "SPF",
                            Point3(0, top_plate_z), wall_length, rotation, wall.id)
        double_top_z == top_plate_z - lumber_depth
        double_top == FramingMember("DoubleTopPlate", config.lumber_size, "SPF",
                            Point3(0, double_top_z), wall_length, rotation, wall.id)
    IN IF config.double_top_plate
       THEN <<bottom_plate, top_plate, double_top>>
       ELSE <<bottom_plate, top_plate>>

RECURSIVE GridPositions(_, _, _, _)
\* `let mut p = from; while p <= limit (or p < limit when strict) { ...; p += step }`:
\* the positions the loop body sees, in order.
GridPositions(from, limit, step, strict) ==
    IF (strict /\ from < limit) \/ (~strict /\ from <= limit)
    THEN <<from>> \o GridPositions(from + step, limit, step, strict)
    ELSE << >>

RECURSIVE studs_at(_, _, _, _, _, _)
\* The body of the stud loop of generate_studs over the grid positions.
studs_at(positions, wall, config, rough_openings, stud_z, stud_height) ==
    IF positions = << >> THEN << >>
    ELSE LET position == Head(positions)
             lumber_width == actual_dimensions(config.lumber_size)[1]
             rest == studs_at(Tail(positions), wall, config, rough_openings,
                              stud_z, stud_height)
         IN IF ~position_in_opening(position, lumber_width, rough_openings)
            THEN <<FramingMember("Stud", config.lumber_size, "SPF",
                        Point3(position, stud_z), stud_height, ZeroRotation, wall.id)>>
                     \o rest
            ELSE rest

\* FramingGenerator::generate_studs
generate_studs(wall, config, rough_openings) ==
    LET wall_length == wall.length
        lumber_width == actual_dimensions(config.lumber_size)[1]
        lumber_depth == actual_dimensions(config.lumber_size)[2]
        plate_count == IF config.double_top_plate THEN 3 ELSE 2
        stud_height == wall.height - (plate_count * lumber_depth)
        stud_z == wall.base_offset + lumber_depth
        end_position == wall_length - lumber_width
        studs == studs_at(GridPositions(0, end_position, config.stud_spacing, FALSE),
                          wall, config, rough_openings, stud_z, stud_height)
        end_pos == wall_length - Half(lumber_width)
        last_stud_position == ((wall_length - lumber_width) \div config.stud_spacing)
                                  * config.stud_spacing
        end_stud == FramingMember("Stud", config.lumber_size, "SPF",
                        Point3(wall_length - lumber_width, stud_z), stud_height,
                        ZeroRotation, wall.id)
    IN IF ~position_in_opening(end_pos, lumber_width, rough_openings)
          /\ Abs(wall_length - lumber_width - last_stud_position) > lumber_width
       THEN Append(studs, end_stud)
       ELSE studs

\* generate_cripples that stands the cripples on top of the height they should fill.
generate_cripples_on_top(wall, config, ro, z_position, height, below_sill) ==
    LET lumber_width == actual_dimensions(config.lumber_size)[1]
        ro_left == ro.position_along_wall - Half(ro.width)
        ro_right == ro.position_along_wall + Half(ro.width)
        positions == GridPositions(ro_left + config.stud_spacing, ro_right - lumber_width,
                                   config.stud_spacing, TRUE)
    IN [i \in 1..Len(positions) |->
            with_opening(FramingMember("CrippleStud", config.lumber_size, "SPF",
                            Point3(positions[i], z_position + height), height, ZeroRotation, wall.id),
                         ro.opening_id)]

\* FramingGenerator::generate_cripples
generate_cripples(wall, config, ro, z_position, height, below_sill) ==
    LET lumber_width == actual_dimensions(config.lumber_size)[1]
        ro_left == ro.position_along_wall - Half(ro.width)
        ro_right == ro.position_along_wall + Half(ro.width)
        positions == GridPositions(ro_left + config.stud_spacing, ro_right - lumber_width,
                                   config.stud_spacing, TRUE)
    IN [i \in 1..Len(positions) |->
            with_opening(FramingMember("CrippleStud", config.lumber_size, "SPF",
                            Point3(positions[i], z_position), height, ZeroRotation, wall.id),
                         ro.opening_id)]

\* generate_opening_framing whose sill is only as long as the rough opening is wide.
generate_opening_framing_short_sill(wall, ro, config) ==
    LET lumber_width == actual_dimensions(config.lumber_size)[1]
        lumber_depth == actual_dimensions(config.lumber_size)[2]
        ro_left == ro.position_along_wall - Half(ro.width)
        ro_right == ro.position_along_wall + Half(ro.width)
        king_left_pos == ro_left - lumber_width
        king_right_pos == ro_right
        plate_count == IF config.double_top_plate THEN 3 ELSE 2
        full_stud_height == wall.height - (plate_count * lumber_depth)
        stud_z == wall.base_offset + lumber_depth
        Vertical(member_type, along, length) ==
            with_opening(FramingMember(member_type, config.lumber_size, "SPF",
                            Point3(along, stud_z), length, ZeroRotation, wall.id),
                         ro.opening_id)
        king_left == Vertical("KingStud", king_left_pos, full_stud_height)
        king_right == Vertical("KingStud", king_right_pos, full_stud_height)
        header_bottom_z == stud_z + full_stud_height - ro.header_depth
        jack_height == header_bottom_z - stud_z
        \* jack_left, jack_right of iteration i = (k + 1) \div 2 - 1 of the loop
        jacks == [k \in 1..(2 * ro.jack_stud_count) |->
                    LET offset == ((k + 1) \div 2) * lumber_width
                    IN IF k % 2 = 1
                       THEN Vertical("JackStud", king_left_pos + offset, jack_height)
                       ELSE Vertical("JackStud", king_right_pos - offset, jack_height)]
        header_lumber_size == size_header_lumber(ro.width, config.is_load_bearing)
        header_length == ro.width + (ro.jack_stud_count * lumber_width * 2)
        header_along == king_left_pos + lumber_width
        header == with_opening(FramingMember("Header", header_lumber_size,
                        header_material(ro.header_type),
                        Point3(header_along, header_bottom_z), header_length,
                        WallRotation, wall.id),
                    ro.opening_id)
        sill_z == stud_z + jack_height - ro.height
        sill == with_opening(FramingMember("Sill", config.lumber_size, "SPF",
                        Point3(header_along, sill_z), ro.width, WallRotation, wall.id),
                    ro.opening_id)
        cripple_height == sill_z - stud_z
        below == IF ~ro.requires_sill THEN << >>
                 ELSE <<sill>> \o
                      (IF cripple_height > lumber_depth
                       THEN generate_cripples(wall, config, ro, stud_z, cripple_height, TRUE)
                       ELSE << >>)
        cripple_above_z == header_bottom_z + ro.header_depth
        cripple_above_height == stud_z + full_stud_height - cripple_above_z
        above == IF cripple_above_height > lumber_depth
                 THEN generate_cripples(wall, config, ro, cripple_above_z,
                                        cripple_above_height, FALSE)
                 ELSE << >>
    IN <<king_left, king_right>> \o jacks \o <<header>> \o below \o above

\* FramingGenerator::generate_opening_framing
generate_opening_framing(wall, ro, config) ==
    LET lumber_width == actual_dimensions(config.lumber_size)[1]
        lumber_depth == actual_dimensions(config.lumber_size)[2]
        ro_left == ro.position_along_wall - Half(ro.width)
        ro_right == ro.position_along_wall + Half(ro.width)
        king_left_pos == ro_left - lumber_width
        king_right_pos == ro_right
        plate_count == IF config.double_top_plate THEN 3 ELSE 2
        full_stud_height == wall.height - (plate_count * lumber_depth)
        stud_z == wall.base_offset + lumber_depth
        Vertical(member_type, along, length) ==
            with_opening(FramingMember(member_type, config.lumber_size, "SPF",
                            Point3(along, stud_z), length, ZeroRotation, wall.id),
                         ro.opening_id)
        king_left == Vertical("KingStud", king_left_pos, full_stud_height)
        king_right == Vertical("KingStud", king_right_pos, full_stud_height)
        header_bottom_z == stud_z + full_stud_height - ro.header_depth
        jack_height == header_bottom_z - stud_z
        \* jack_left, jack_right of iteration i = (k + 1) \div 2 - 1 of the loop
        jacks == [k \in 1..(2 * ro.jack_stud_count) |->
                    LET offset == ((k + 1) \div 2) * lumber_width
                    IN IF k % 2 = 1
                       THEN Vertical("JackStud", king_left_pos + offset, jack_height)
                       ELSE Vertical("JackStud", king_right_pos - offset, jack_height)]
        header_lumber_size == size_header_lumber(ro.width, config.is_load_bearing)
        header_length == ro.width + (ro.jack_stud_count * lumber_width * 2)
        header_along == king_left_pos + lumber_width
        header == with_opening(FramingMember("Header", header_lumber_size,
                        header_material(ro.header_type),
                        Point3(header_along, header_bottom_z), header_length,
                        WallRotation, wall.id),
                    ro.opening_id)
        sill_z == stud_z + jack_height - ro.height
        sill == with_opening(FramingMember("Sill", config.lumber_size, "SPF",
                        Point3(header_along, sill_z), header_length, WallRotation, wall.id),
                    ro.opening_id)
        cripple_height == sill_z - stud_z
        below == IF ~ro.requires_sill THEN << >>
                 ELSE <<sill>> \o
                      (IF cripple_height > lumber_depth
                       THEN generate_cripples(wall, config, ro, stud_z, cripple_height, TRUE)
                       ELSE << >>)
        cripple_above_z == header_bottom_z + ro.header_depth
        cripple_above_height == stud_z + full_stud_height - cripple_above_z
        above == IF cripple_above_height > lumber_depth
                 THEN generate_cripples(wall, config, ro, cripple_above_z,
                                        cripple_above_height, FALSE)
                 ELSE << >>
    IN <<king_left, king_right>> \o jacks \o <<header>> \o below \o above

RECURSIVE blocks_in_segment(_, _, _, _, _, _)
\* The inner loop of generate_fire_blocking: `while block_pos < segment_end`.
blocks_in_segment(block_pos, segment_end, wall, config, rough_openings, blocking_z) ==
    IF ~(block_pos < segment_end) THEN << >>
    ELSE LET next_stud == ((block_pos \div config.stud_spacing) + 1) * config.stud_spacing
             block_length == config.stud_spacing
             rest == blocks_in_segment(next_stud, segment_end, wall, config,
                                       rough_openings, blocking_z)
         IN IF next_stud < segment_end
               /\ ~position_in_opening(block_pos, block_length, rough_openings)
            THEN <<FramingMember("FireBlocking", config.lumber_size, "SPF",
                        Point3(block_pos, blocking_z), block_length, WallRotation, wall.id)>>
                     \o rest
            ELSE rest

\* `const FIRE_BLOCK_INTERVAL: f64 = 120.0`
FIRE_BLOCK_INTERVAL == 960

RECURSIVE blocking_from(_, _, _, _, _)
\* The outer loop of generate_fire_blocking: `while pos < wall_length`, one
\* FIRE_BLOCK_INTERVAL = 120.0 segment per iteration.
blocking_from(pos, wall, config, rough_openings, blocking_z) ==
    IF ~(pos < wall.length) THEN << >>
    ELSE LET segment_start == pos
             segment_end == Min(pos + FIRE_BLOCK_INTERVAL, wall.length)
             here == IF ~segment_entirely_in_opening(segment_start, segment_end,
                                                     rough_openings)
                     THEN blocks_in_segment(segment_start, segment_end, wall, config,
                                            rough_openings, blocking_z)
                     ELSE << >>
         IN here \o blocking_from(pos + FIRE_BLOCK_INTERVAL, wall, config, rough_openings, blocking_z)

\* FramingGenerator::generate_fire_blocking
generate_fire_blocking(wall, config, rough_openings, rotation) ==
    LET lumber_depth == actual_dimensions(config.lumber_size)[2]
        plate_count == IF config.double_top_plate THEN 3 ELSE 2
        stud_height == wall.height - (plate_count * lumber_depth)
        blocking_z == wall.base_offset + lumber_depth + Half(stud_height)
    IN blocking_from(0, wall, config, rough_openings, blocking_z)

RECURSIVE all_opening_framing(_, _, _)
\* `for ro in &rough_openings { generate_opening_framing(wall, ro, config) ... }`
all_opening_framing(wall, rough_openings, config) ==
    IF rough_openings = << >> THEN << >>
    ELSE generate_opening_framing(wall, Head(rough_openings), config)
            \o all_opening_framing(wall, Tail(rough_openings), config)

\* The layout generate_wall_framing builds once validation has passed.
build_layout(wall, config, rough_openings) ==
    LET layout0 == [FramingLayout(wall.id, config.stud_spacing, config.lumber_size)
                        EXCEPT !.double_top_plate = config.double_top_plate]
        layout1 == add_members(layout0, generate_plates(wall, config, WallRotation))
        layout2 == add_members(layout1, generate_studs(wall, config, rough_openings))
        layout3 == add_members(layout2, all_opening_framing(wall, rough_openings, config))
        layout4 == IF config.fire_blocking_required
                   THEN add_members(layout3,
                            generate_fire_blocking(wall, config, rough_openings, WallRotation))
                   ELSE layout3
    IN recalculate_totals(layout4)

\* generate_wall_framing that looks at the openings before the wall's dimensions.
generate_wall_framing_openings_first(wall, assembly, openings) ==
    LET config == wall.framing_config
        rough_openings == compute_all_rough_openings(wall, openings, config)
    IN IF rough_openings.kind # "Ok"
       THEN rough_openings
       ELSE IF wall.length < 8 \/ wall.height < 12 * 8
       THEN InvalidWallDimensions(wall.id)
       ELSE LET no_overlap == validate_openings_no_overlap(rough_openings.value)
            IN IF no_overlap.kind # "Ok"
               THEN no_overlap
               ELSE Ok(build_layout(wall, config, rough_openings.value))

\* FramingGenerator::generate_wall_framing
generate_wall_framing(wall, assembly, openings) ==
    LET config == wall.framing_config
        wall_length == wall.length
        wall_height == wall.height
    IN IF wall_length < 8
       THEN InvalidWallDimensions(wall.id)
       ELSE IF wall_height < 12 * 8
       THEN InvalidWallDimensions(wall.id)
       ELSE LET rough_openings == compute_all_rough_openings(wall, openings, config)
            IN IF rough_openings.kind # "Ok"
               THEN rough_openings
               ELSE LET no_overlap == validate_openings_no_overlap(rough_openings.value)
                    IN IF no_overlap.kind # "Ok"
                       THEN no_overlap
                       ELSE Ok(build_layout(wall, config, rough_openings.value))

\* ------------------------------------------- the manager driven by a caller

\* The manager as the variables hold it.
Self == Manager(dirty_walls, opening_wall_map)

NoCall == [op |-> "new", opening |-> None, wall |-> None, ret |-> FALSE]

NoRun == [wall |-> None, n |-> 0]

\* The run after one more call: invalidate_wall(w) on a manager that has seen
\* nothing but invalidate_wall(w) extends it; any other call ends it for good.
RunAfter(op, wall_id) ==
    IF op = "invalidate_wall" /\ last.op \in {"new", "invalidate_wall"}
       /\ (only_wall.n > 0 \/ last.op = "new")
       /\ only_wall.wall \in {None, wall_id}
    THEN [wall |-> wall_id,
          n |-> IF only_wall.n < MaxRepeat THEN only_wall.n + 1 ELSE MaxRepeat]
    ELSE NoRun

schedVars == <<sched_pc, sched_wall, wall_rev, layout_rev, regenerated, edits_done>>
againVars == <<again_assembly, again_openings, again_framing>>
headerVars == <<in_span, in_is_load_bearing, out_header_type, out_header_lumber>>
genVars == <<in_wall, in_assembly, in_openings, gen_pc, out_framing, out_rough,
             againVars, headerVars>>

\* One call: the manager becomes post, and the call and the state before it are recorded.
Call(op, opening_id, wall_id, post, ret) ==
    /\ dirty_walls' = post.dirty_walls
    /\ opening_wall_map' = post.opening_wall_map
    /\ prev' = Self
    /\ last' = [op |-> op, opening |-> opening_id, wall |-> wall_id, ret |-> ret]
    /\ only_wall' = RunAfter(op, wall_id)
    /\ UNCHANGED <<schedVars, genVars>>

InvalidateWall ==
    \E w \in WallIds :
        Call("invalidate_wall", None, w, invalidate_wall(Self, w), FALSE)

InvalidateOpening ==
    \E o \in OpeningIds, w \in WallIds :
        Call("invalidate_opening", o, w, invalidate_opening(Self, o, w), FALSE)

InvalidateOpeningById ==
    \E o \in OpeningIds :
        LET r == invalidate_opening_by_id(Self, o)
        IN Call("invalidate_opening_by_id", o, None, r.mgr, r.ret)

RemoveOpening ==
    \E o \in OpeningIds :
        Call("remove_opening", o, None, remove_opening(Self, o), FALSE)

RegisterOpening ==
    \E o \in OpeningIds, w \in WallIds :
        Call("register_opening", o, w, register_opening(Self, o, w), FALSE)

MarkClean ==
    \E w \in WallIds :
        Call("mark_clean", None, w, mark_clean(Self, w), FALSE)

Clear == Call("clear", None, None, clear(Self), FALSE)

Reset == Call("reset", None, None, reset(Self), FALSE)

vars == <<dirty_walls, opening_wall_map, prev, last, only_wall, schedVars, genVars>>

InitManager ==
    /\ dirty_walls = new.dirty_walls
    /\ opening_wall_map = new.opening_wall_map
    /\ prev = new
    /\ last = NoCall
    /\ only_wall = NoRun

InitSched ==
    /\ sched_pc = "poll"
    /\ sched_wall = None
    /\ wall_rev = [w \in WallIds |-> 0]
    /\ layout_rev = [w \in WallIds |-> 0]
    /\ regenerated = {}
    /\ edits_done = 0

\* No second generator call has been made.
InitNoAgain ==
    /\ again_assembly = None
    /\ again_openings = << >>
    /\ again_framing = None

\* No header is being sized.
InitNoHeader ==
    /\ in_span = None
    /\ in_is_load_bearing = FALSE
    /\ out_header_type = None
    /\ out_header_lumber = None

\* No generator call is under way.
InitNoGen ==
    /\ in_wall = None
    /\ in_assembly = None
    /\ in_openings = << >>
    /\ gen_pc = "idle"
    /\ out_framing = None
    /\ out_rough = << >>
    /\ InitNoAgain
    /\ InitNoHeader

Init == InitManager /\ InitSched /\ InitNoGen

Next ==
    \/ InvalidateWall
    \/ InvalidateOpening
    \/ InvalidateOpeningById
    \/ RemoveOpening
    \/ RegisterOpening
    \/ MarkClean
    \/ Clear
    \/ Reset

Spec == Init /\ [][Next]_vars

\* ----------------------------- the manager drained by the external scheduler

managerVars == <<dirty_walls, opening_wall_map>>
callVars == <<prev, last, only_wall>>

SetManager(post) ==
    /\ dirty_walls' = post.dirty_walls
    /\ opening_wall_map' = post.opening_wall_map

\* The session changes the inputs of the walls in `walls` (one more revision each).
Edited(walls) ==
    /\ wall_rev' = [w \in WallIds |-> IF w \in walls THEN wall_rev[w] + 1 ELSE wall_rev[w]]
    /\ edits_done' = edits_done + 1
    /\ UNCHANGED <<sched_pc, sched_wall, layout_rev, regenerated, callVars, genVars>>

\* A wall's geometry or framing config is edited: invalidate_wall.
EditWall ==
    \E w \in WallIds :
        /\ edits_done < MaxEdits
        /\ SetManager(invalidate_wall(Self, w))
        /\ Edited({w})

\* An opening is added to a wall or changed: invalidate_opening.
EditOpening ==
    \E o \in OpeningIds, w \in WallIds :
        /\ edits_done < MaxEdits
        /\ SetManager(invalidate_opening(Self, o, w))
        /\ Edited({w})

\* An opening is changed by a caller that knows only its id: invalidate_opening_by_id.
EditOpeningById ==
    \E o \in OpeningIds :
        /\ edits_done < MaxEdits
        /\ SetManager(invalidate_opening_by_id(Self, o).mgr)
        /\ Edited({get_wall_for_opening(Self, o)} \ {None})

\* An opening is deleted: remove_opening.
DeleteOpening ==
    \E o \in OpeningIds :
        /\ edits_done < MaxEdits
        /\ SetManager(remove_opening(Self, o))
        /\ Edited({get_wall_for_opening(Self, o)} \ {None})

\* The scheduler polls get_dirty_walls() and takes one dirty wall.
SchedPoll ==
    /\ sched_pc = "poll"
    /\ \E w \in get_dirty_walls(Self) :
            /\ sched_wall' = w
            /\ sched_pc' = "generate"
    /\ UNCHANGED <<managerVars, callVars, wall_rev, layout_rev, regenerated, edits_done, genVars>>

\* The scheduler runs generate_wall_framing for the wall, on its inputs as they are now.
SchedGenerate ==
    /\ sched_pc = "generate"
    /\ layout_rev' = [layout_rev EXCEPT ![sched_wall] = wall_rev[sched_wall]]
    /\ regenerated' = regenerated \cup {sched_wall}
    /\ sched_pc' = "mark_clean"
    /\ UNCHANGED <<managerVars, callVars, sched_wall, wall_rev, edits_done, genVars>>

\* The scheduler calls mark_clean for the wall it has regenerated.
SchedMarkClean ==
    /\ sched_pc = "mark_clean"
    /\ SetManager(mark_clean(Self, sched_wall))
    /\ sched_pc' = "poll"
    /\ sched_wall' = None
    /\ UNCHANGED <<callVars, wall_rev, layout_rev, regenerated, edits_done, genVars>>

NextSched ==
    \/ EditWall
    \/ EditOpening
    \/ EditOpeningById
    \/ DeleteOpening
    \/ SchedPoll
    \/ SchedGenerate
    \/ SchedMarkClean

\* The scheduler keeps running: each of its steps is taken if it stays possible.
SchedFairness ==
    /\ WF_vars(SchedPoll)
    /\ WF_vars(SchedGenerate)
    /\ WF_vars(SchedMarkClean)

SpecSched == Init /\ [][NextSched]_vars /\ SchedFairness

\* The walls some edit has invalidated.
Invalidated == {w \in WallIds : wall_rev[w] > 0}

\* C5: under the scheduler (poll get_dirty_walls, generate, mark_clean; weakly
\* fair), once the edits stop the dirty set becomes empty and stays empty, every
\* wall that was invalidated has been regenerated, and the generator runs only
\* for walls taken from the dirty set.
C5_SchedulerDrains ==
    /\ [](sched_pc = "generate" => is_wall_dirty(Self, sched_wall))
    /\ [](regenerated \subseteq Invalidated)
    /\ <>[](/\ ~has_dirty_walls(Self)
            /\ dirty_count(Self) = 0
            /\ Invalidated \subseteq regenerated)

\* All edits are made, every wall was invalidated, and the scheduler has
\* regenerated and cleaned them all.
C5_Witness ==
    /\ edits_done = MaxEdits
    /\ Invalidated = WallIds
    /\ regenerated = WallIds
    /\ ~has_dirty_walls(Self)
    /\ sched_pc = "poll"

\* -------------------------------------------- the generator on drawn inputs

In(inches) == inches * 8

\* WallFramingConfig::exterior (also Default), interior_partition, interior_load_bearing
Config(stud_spacing, lumber_size, double_top_plate, is_load_bearing, fire_blocking_required) ==
    [stud_spacing |-> stud_spacing,
     lumber_size |-> lumber_size,
     double_top_plate |-> double_top_plate,
     is_load_bearing |-> is_load_bearing,
     fire_blocking_required |-> fire_blocking_required]

\* The exterior config with studs 24in on-center.
exterior_24in_on_center == Config(In(24), Lumber("TwoBySix"), TRUE, TRUE, FALSE)

exterior == Config(In(16), Lumber("TwoBySix"), TRUE, TRUE, FALSE)
interior_partition == Config(In(16), Lumber("TwoByFour"), FALSE, FALSE, FALSE)
interior_load_bearing == Config(In(16), Lumber("TwoByFour"), TRUE, TRUE, FALSE)

\* WallFramingConfig::with_fire_blocking
with_fire_blocking(config, required) ==
    [config EXCEPT !.fire_blocking_required = required]

Configs ==
    {exterior, interior_partition, interior_load_bearing,
     with_fire_blocking(exterior, TRUE)}

\* Wall lengths: 0.5in (too short), 1in (the least accepted), 48in, 80in, 120in, 144in.
WallLengths == {4, In(1), In(48), In(80), In(120), In(144)}
\* Wall heights: 11in (too short), 12in (the least accepted) and 96in.
WallHeights == {In(11), In(12), In(96)}

\* WallId of the wall handed to the generator, and of some other wall.
GenWallId == "wall"
OtherWallId == "other_wall"

\* Walls standing on the floor, 144in x 96in walls raised 10in above it, and a
\* 160in x 96in wall with fire blocking (a second 120in segment of 40in).
GenWalls ==
    [id : {GenWallId}, length : WallLengths, height : WallHeights,
     base_offset : {0}, framing_config : Configs]
    \cup [id : {GenWallId}, length : {In(144)}, height : {In(96)},
          base_offset : {In(10)}, framing_config : Configs]
    \cup [id : {GenWallId}, length : {In(160)}, height : {In(96)},
          base_offset : {0}, framing_config : {with_fire_blocking(exterior, TRUE)}]

\* The walls given several openings at once: too short, 80in and 144in long.
PairWalls ==
    {wall \in GenWalls : wall.length \in {4, In(80), In(144)} /\ wall.height = In(96)}

Assemblies == {"exterior_2x6"}

Shapes(wall_ids, types, positions, widths, heights) ==
    [wall_id : wall_ids, opening_type : types, position_along_wall : positions,
     width : widths, height : heights, sill_height : {In(36)}]

\* The openings tried one at a time: every eighth of the wall; 35in to 72in
\* wide (rough widths on both sides of 48in, and one over 72in); 48in, 95.5in
\* (rough height = a 96in wall) and 96in high; some that belong to another wall;
\* and a 40in window whose exclusion zone ends half an inch before the end of a
\* 48in wall.
SingleShapes ==
    Shapes({GenWallId}, {"Window", "Door", "Other"}, 0..8,
           {In(35), In(36), In(46), In(47), In(48), In(72)},
           {In(48), In(96) - 4, In(96)})
    \cup Shapes({OtherWallId}, {"Window", "Door"}, {0, 4}, {In(36)}, {In(48), In(96)})
    \cup Shapes({GenWallId}, {"Window"}, {4}, {In(40)}, {In(48)})

\* The openings tried together: windows and doors that fit, overlap or just
\* clear each other on an 80in wall, one too high, one out of bounds, and two
\* that belong to another wall.
PairShapes ==
    Shapes({GenWallId}, {"Window"}, {2, 3, 4, 6}, {In(35), In(36)}, {In(48)})
    \cup Shapes({GenWallId}, {"Window"}, {3}, {In(36)}, {In(96)})
    \cup Shapes({GenWallId}, {"Window"}, {0}, {In(36)}, {In(48)})
    \cup Shapes({GenWallId}, {"Door"}, {2, 6}, {In(34), In(35)}, {In(48)})
    \cup Shapes({OtherWallId}, {"Window"}, {0, 3}, {In(36)}, {In(48)})

\* Opening::new gives every opening its own id: here its place in the slice.
WithIds(shapes) ==
    [i \in 1..Len(shapes) |->
        [id |-> i,
         wall_id |-> shapes[i].wall_id,
         opening_type |-> shapes[i].opening_type,
         position_along_wall |-> shapes[i].position_along_wall,
         width |-> shapes[i].width,
         height |-> shapes[i].height,
         sill_height |-> shapes[i].sill_height]]

OpeningSlices ==
    {WithIds(s) : s \in UNION {[1..n -> SingleShapes] : n \in 0..1}}
    \cup {WithIds(s) : s \in UNION {[1..n -> PairShapes] : n \in 2..MaxOpenings}}

InitGen ==
    /\ InitManager
    /\ InitSched
    /\ in_wall \in GenWalls
    /\ in_assembly \in Assemblies
    /\ in_openings \in OpeningSlices
    /\ Len(in_openings) > 1 => in_wall \in PairWalls
    /\ gen_pc = "generate_wall_framing"
    /\ out_framing = None
    /\ out_rough = << >>
    /\ InitNoAgain
    /\ InitNoHeader

\* The caller runs the generator on the wall and the openings.
GenerateWallFraming ==
    /\ gen_pc = "generate_wall_framing"
    /\ out_framing' = generate_wall_framing(in_wall, in_assembly, in_openings)
    /\ gen_pc' = "compute_rough_opening"
    /\ UNCHANGED <<managerVars, callVars, schedVars, in_wall, in_assembly, in_openings,
                   out_rough, againVars, headerVars>>

\* The caller previews every opening of the slice with compute_rough_opening.
ComputeRoughOpening ==
    /\ gen_pc = "compute_rough_opening"
    /\ out_rough' = [i \in 1..Len(in_openings) |->
                        compute_rough_opening(in_openings[i], in_wall,
                                              in_wall.framing_config)]
    /\ gen_pc' = "done"
    /\ UNCHANGED <<managerVars, callVars, schedVars, in_wall, in_assembly, in_openings,
                   out_framing, againVars, headerVars>>

\* Members a caller adds to a returned layout: a king stud and an LVL header.
ExtraMembers ==
    {FramingMember("KingStud", Lumber("TwoByFour"), "SPF", Point3(0, 0), In(92),
                   ZeroRotation, GenWallId),
     FramingMember("Header", Custom(14, 95), "LVL", Point3(0, In(80)), In(40),
                   WallRotation, GenWallId)}

\* The caller adds a member of its own to the returned layout with add_member.
AddMember ==
    /\ gen_pc = "done"
    /\ out_framing.kind = "Ok"
    /\ \E member \in ExtraMembers :
            out_framing' = Ok(add_member(out_framing.value, member))
    /\ gen_pc' = "recalculate_totals"
    /\ UNCHANGED <<managerVars, callVars, schedVars, in_wall, in_assembly, in_openings,
                   out_rough, againVars, headerVars>>

\* The caller calls recalculate_totals on the layout.
RecalculateTotals ==
    /\ gen_pc = "recalculate_totals"
    /\ out_framing' = Ok(recalculate_totals(out_framing.value))
    /\ gen_pc' = "recalculated"
    /\ UNCHANGED <<managerVars, callVars, schedVars, in_wall, in_assembly, in_openings,
                   out_rough, againVars, headerVars>>

\* An assembly other than the one of the first call.
OtherAssembly == "interior_2x4"

\* Openings of another wall that would fail on this one: one out of bounds and
\* higher than any wall, one in the middle of the wall.
StrayOpenings ==
    <<[id |-> None, wall_id |-> OtherWallId, opening_type |-> "Window", position_along_wall |-> 0,
       width |-> In(36), height |-> In(200), sill_height |-> In(36)],
      [id |-> None, wall_id |-> OtherWallId, opening_type |-> "Door", position_along_wall |-> 4,
       width |-> In(36), height |-> In(48), sill_height |-> 0]>>

\* Opening::new gives the openings of the second call ids of their own.
WithFreshIds(openings) ==
    [i \in 1..Len(openings) |-> [openings[i] EXCEPT !.id = MaxOpenings + 2 + i]]

\* The inputs of a second call that agrees with the first on the wall and on the
\* type, position, width and height of the wall's own openings, and differs in
\* the assembly, in every sill_height, or in the openings of other walls.
AgainInputs ==
    LET own == SelectSeq(in_openings, LAMBDA o : o.wall_id = in_wall.id)
    IN {[assembly |-> OtherAssembly, openings |-> WithFreshIds(in_openings)],
        [assembly |-> in_assembly,
         openings |-> WithFreshIds([i \in 1..Len(in_openings) |->
                        [in_openings[i] EXCEPT !.sill_height = In(30)]])],
        [assembly |-> in_assembly,
         openings |-> WithFreshIds(<<StrayOpenings[1]>> \o own \o <<StrayOpenings[2]>>)]}

\* The caller runs the generator a second time, on inputs that differ only in
\* what the generator is not to depend on.
GenerateAgain ==
    /\ gen_pc = "done"
    /\ \E again \in AgainInputs :
            /\ again_assembly' = again.assembly
            /\ again_openings' = again.openings
            /\ again_framing' = generate_wall_framing(in_wall, again.assembly, again.openings)
    /\ gen_pc' = "generated_again"
    /\ UNCHANGED <<managerVars, callVars, schedVars, in_wall, in_assembly, in_openings,
                   out_framing, out_rough, headerVars>>

NextGen ==
    \/ GenerateAgain
    \/ GenerateWallFraming
    \/ ComputeRoughOpening
    \/ AddMember
    \/ RecalculateTotals

SpecGen == InitGen /\ [][NextGen]_vars

\* ------------------------------------------------ headers sized for a span

\* The spans tried: every quarter inch from 0 to MaxSpanInches.
Spans == {2 * k : k \in 0..(4 * MaxSpanInches)}

\* The header of a span is sized with size_header and size_header_lumber, and
\* then a Door whose rough opening is that wide (2in wider than the door) is
\* framed in the middle of a 144in x 96in wall, load-bearing or not as the flag says.
InitHeader ==
    /\ InitManager
    /\ InitSched
    /\ InitNoAgain
    /\ in_span \in Spans
    /\ in_is_load_bearing \in BOOLEAN
    /\ out_header_type = None
    /\ out_header_lumber = None
    /\ in_wall = [id |-> GenWallId, length |-> In(144), height |-> In(96),
                  base_offset |-> 0,
                  framing_config |-> IF in_is_load_bearing
                                     THEN interior_load_bearing
                                     ELSE interior_partition]
    /\ in_assembly \in Assemblies
    /\ in_openings =
            IF in_span > In(2)
            THEN WithIds(<<[wall_id |-> GenWallId, opening_type |-> "Door",
                            position_along_wall |-> 4, width |-> in_span - In(2),
                            height |-> In(48), sill_height |-> 0]>>)
            ELSE << >>
    /\ gen_pc = "size_header"
    /\ out_framing = None
    /\ out_rough = << >>

\* The caller asks size_header for the header type of the span.
SizeHeader ==
    /\ gen_pc = "size_header"
    /\ out_header_type' = size_header(in_span, in_is_load_bearing)
    /\ gen_pc' = "size_header_lumber"
    /\ UNCHANGED <<managerVars, callVars, schedVars, in_wall, in_assembly, in_openings,
                   out_framing, out_rough, againVars, in_span, in_is_load_bearing,
                   out_header_lumber>>

\* The lumber size size_header_lumber gives the span.
SizeHeaderLumber ==
    /\ gen_pc = "size_header_lumber"
    /\ out_header_lumber' = size_header_lumber(in_span, in_is_load_bearing)
    /\ gen_pc' = "generate_wall_framing"
    /\ UNCHANGED <<managerVars, callVars, schedVars, in_wall, in_assembly, in_openings,
                   out_framing, out_rough, againVars, in_span, in_is_load_bearing,
                   out_header_type>>

NextHeader ==
    \/ SizeHeader
    \/ SizeHeaderLumber
    \/ GenerateWallFraming
    \/ ComputeRoughOpening

SpecHeader == InitHeader /\ [][NextHeader]_vars

\* ------------------------------------------- claims on the manager (Spec)

\* Dirty status of every wall but those in `except` is as before the last call.
DirtyKeptExcept(except) ==
    \A x \in WallIds \ except : is_wall_dirty(Self, x) = is_wall_dirty(prev, x)

\* The mapping of every opening but those in `except` is as before the last call.
MappingsKeptExcept(except) ==
    \A p \in OpeningIds \ except :
        get_wall_for_opening(Self, p) = get_wall_for_opening(prev, p)

\* C6: remove_opening(o) of a registered opening clears its mapping and leaves the
\* wall it was mapped to dirty, all other mappings and dirty flags untouched;
\* of an unregistered opening it changes nothing.
C6_RemoveOpening ==
    last.op = "remove_opening" =>
        LET o == last.opening
            w == get_wall_for_opening(prev, o)
        IN IF w # None
           THEN /\ get_wall_for_opening(Self, o) = None
                /\ \A x \in WallIds : o \notin get_openings_for_wall(Self, x)
                /\ o \notin get_registered_openings(Self)
                /\ is_wall_dirty(Self, w)
                /\ MappingsKeptExcept({o})
                /\ DirtyKeptExcept({w})
           ELSE Self = prev

\* A registered opening whose wall was clean has been removed.
C6_Witness ==
    /\ last.op = "remove_opening"
    /\ get_wall_for_opening(prev, last.opening) # None
    /\ ~is_wall_dirty(prev, get_wall_for_opening(prev, last.opening))
    /\ is_wall_dirty(Self, get_wall_for_opening(prev, last.opening))
    /\ get_registered_openings(Self) # {}

\* C7: register_opening(o, w) leaves the dirty set as it was; its only effect is
\* that o is mapped to w.
C7_RegisterNeverDirties ==
    last.op = "register_opening" =>
        /\ DirtyKeptExcept({})
        /\ dirty_count(Self) = dirty_count(prev)
        /\ get_dirty_walls(Self) = get_dirty_walls(prev)
        /\ get_wall_for_opening(Self, last.opening) = last.wall
        /\ MappingsKeptExcept({last.opening})

\* An opening has been registered to a clean wall while another wall was dirty.
C7_Witness ==
    /\ last.op = "register_opening"
    /\ ~is_wall_dirty(Self, last.wall)
    /\ has_dirty_walls(Self)
    /\ get_wall_for_opening(prev, last.opening) # last.wall

\* C8: invalidate_wall of a wall that is already dirty changes nothing, a run of
\* invalidate_wall(id) calls on a fresh manager leaves dirty_count() = 1, and
\* dirty_count() is the number of dirty walls, positive exactly when
\* has_dirty_walls() holds.
C8_InvalidateWallIdempotent ==
    /\ (last.op = "invalidate_wall" /\ is_wall_dirty(prev, last.wall)) => Self = prev
    /\ only_wall.n >= 1 =>
            /\ dirty_count(Self) = 1
            /\ is_wall_dirty(Self, only_wall.wall)
    /\ dirty_count(Self) = Cardinality({w \in WallIds : is_wall_dirty(Self, w)})
    /\ has_dirty_walls(Self) <=> dirty_count(Self) > 0

\* A fresh manager has seen invalidate_wall(id) three times and nothing else.
C8_Witness ==
    /\ only_wall.n >= 3
    /\ last.op = "invalidate_wall"
    /\ is_wall_dirty(prev, last.wall)
    /\ dirty_count(Self) = 1

\* C9: invalidate_opening(o, w) dirties w and maps o to w, replacing any earlier
\* mapping; no other wall's dirty flag and no other opening's mapping changes;
\* every opening is listed by get_openings_for_wall for exactly the wall it is
\* mapped to, and for no wall when it is unmapped.
C9_InvalidateOpening ==
    /\ last.op = "invalidate_opening" =>
            /\ is_wall_dirty(Self, last.wall)
            /\ get_wall_for_opening(Self, last.opening) = last.wall
            /\ DirtyKeptExcept({last.wall})
            /\ MappingsKeptExcept({last.opening})
    /\ \A o \in OpeningIds :
            {x \in WallIds : o \in get_openings_for_wall(Self, x)}
                = {get_wall_for_opening(Self, o)} \ {None}

\* An opening mapped to a clean wall has been moved to another wall by
\* invalidate_opening, and the wall it left is still clean.
C9_Witness ==
    /\ last.op = "invalidate_opening"
    /\ get_wall_for_opening(prev, last.opening) \notin {None, last.wall}
    /\ ~is_wall_dirty(Self, get_wall_for_opening(prev, last.opening))
    /\ get_openings_for_wall(Self, last.wall) = {last.opening}

\* C10: invalidate_opening_by_id(o) returns true exactly when o is registered;
\* then its wall is dirty afterwards and nothing else changes; when it returns
\* false the manager is unchanged.
C10_InvalidateOpeningById ==
    last.op = "invalidate_opening_by_id" =>
        LET w == get_wall_for_opening(prev, last.opening)
        IN /\ last.ret <=> (w # None)
           /\ last.ret =>
                /\ is_wall_dirty(Self, w)
                /\ DirtyKeptExcept({w})
                /\ MappingsKeptExcept({})
                /\ get_registered_openings(Self) = get_registered_openings(prev)
           /\ ~last.ret => Self = prev

\* A registered opening whose wall was clean has been invalidated by id.
C10_Witness ==
    /\ last.op = "invalidate_opening_by_id"
    /\ last.ret
    /\ ~is_wall_dirty(prev, get_wall_for_opening(prev, last.opening))
    /\ is_wall_dirty(Self, get_wall_for_opening(Self, last.opening))

\* An opening that was removed (or never registered) has been invalidated by id
\* while another opening was registered: the call returned false.
C10_WitnessFalse ==
    /\ last.op = "invalidate_opening_by_id"
    /\ ~last.ret
    /\ get_registered_openings(Self) # {}
    /\ Self = prev

\* C11: mark_clean(w) removes exactly w from the dirty set and clear() empties
\* it, both leaving every opening-to-wall mapping as it was (invalidate_opening_by_id
\* still returns true for every registered opening); reset() empties the dirty
\* set and the mapping, so has_dirty_walls() is false and get_wall_for_opening
\* is None for every opening.
C11_CleaningTouchesOnlyWhatItNames ==
    /\ last.op = "mark_clean" =>
        /\ ~is_wall_dirty(Self, last.wall)
        /\ get_dirty_walls(Self) = get_dirty_walls(prev) \ {last.wall}
        /\ DirtyKeptExcept({last.wall})
    /\ last.op = "clear" =>
        /\ get_dirty_walls(Self) = {}
        /\ ~has_dirty_walls(Self)
        /\ dirty_count(Self) = 0
    /\ last.op \in {"mark_clean", "clear"} =>
        /\ MappingsKeptExcept({})
        /\ get_registered_openings(Self) = get_registered_openings(prev)
        /\ \A o \in get_registered_openings(prev) :
                invalidate_opening_by_id(Self, o).ret
    /\ last.op = "reset" =>
        /\ ~has_dirty_walls(Self)
        /\ dirty_count(Self) = 0
        /\ get_registered_openings(Self) = {}
        /\ \A o \in OpeningIds : get_wall_for_opening(Self, o) = None
        /\ \A o \in OpeningIds : ~invalidate_opening_by_id(Self, o).ret

\* clear() was called with two walls dirty and an opening registered: the dirty
\* set is empty and the opening is still mapped.
C11_Witness ==
    /\ last.op = "clear"
    /\ dirty_count(prev) = 2
    /\ get_registered_openings(prev) # {}
    /\ ~has_dirty_walls(Self)
    /\ get_registered_openings(Self) = get_registered_openings(prev)

\* mark_clean(w) was called with w and another wall dirty: only the other is left.
C11_WitnessMarkClean ==
    /\ last.op = "mark_clean"
    /\ dirty_count(prev) = 2
    /\ is_wall_dirty(prev, last.wall)
    /\ dirty_count(Self) = 1

\* reset() was called with a wall dirty and an opening registered.
C11_WitnessReset ==
    /\ last.op = "reset"
    /\ has_dirty_walls(prev)
    /\ get_registered_openings(prev) # {}
    /\ Self = new

\* ------------------------------------------ claims on the generator (SpecGen)

\* Both generator calls have returned.
Generated == gen_pc = "done"

\* The places in the slice of the openings that belong to the wall.
Own == {i \in 1..Len(in_openings) : in_openings[i].wall_id = in_wall.id}

\* The wall fails the dimension check: length < 1in or height < 12in.
DimsBad == in_wall.length < In(1) \/ in_wall.height < In(12)

\* Left and right edge of a rough opening.
RoLeft(ro) == ro.position_along_wall - Half(ro.width)
RoRight(ro) == ro.position_along_wall + Half(ro.width)

\* The gap between two rough openings: left edge of the right-hand one minus
\* right edge of the left-hand one.
Gap(a, b) ==
    IF RoLeft(a) <= RoLeft(b) THEN RoLeft(b) - RoRight(a) ELSE RoLeft(a) - RoRight(b)

\* The pairs of the wall's openings, in slice order, closer than 3.5in.
ClosePairs ==
    {p \in Own \X Own :
        /\ p[1] < p[2]
        /\ Gap(out_rough[p[1]].value, out_rough[p[2]].value) < 28}

\* C1: generate_wall_framing returns InvalidWallDimensions (with the wall id)
\* exactly when length < 1in or height < 12in, whatever the openings; otherwise
\* the first error, in slice order, of compute_rough_opening over the wall's own
\* openings; otherwise OverlappingOpenings or a layout, and a layout only when
\* no step fails.
C1_FirstFailingStep ==
    Generated =>
        LET failing == {i \in Own : out_rough[i].kind # "Ok"}
            first_failing == CHOOSE i \in failing : \A j \in failing : i <= j
        IN /\ (out_framing.kind = "InvalidWallDimensions") <=> DimsBad
           /\ DimsBad => out_framing = InvalidWallDimensions(in_wall.id)
           /\ (~DimsBad /\ failing # {}) => out_framing = out_rough[first_failing]
           /\ (~DimsBad /\ failing = {}) =>
                /\ out_framing.kind \in {"OverlappingOpenings", "Ok"}
                /\ (out_framing.kind = "Ok") <=> (ClosePairs = {})

\* A 0.5in wall was given two openings of its own, both out of bounds, and the
\* generator returned InvalidWallDimensions.
C1_Witness ==
    /\ Generated
    /\ in_wall.length = 4
    /\ in_wall.height = In(96)
    /\ Len(in_openings) = 2
    /\ Own = {1, 2}
    /\ out_rough[1].kind = "OpeningOutOfBounds"
    /\ out_framing = InvalidWallDimensions(in_wall.id)

\* A wall of valid size was given an opening that is too high and then one that
\* is out of bounds: the generator returned the first one's error.
C1_WitnessOrder ==
    /\ Generated
    /\ ~DimsBad
    /\ Own = {1, 2}
    /\ out_rough[1].kind = "OpeningTooLarge"
    /\ out_rough[2].kind = "OpeningOutOfBounds"
    /\ out_framing = OpeningTooLarge(1)

\* Along-wall center of a vertical member: its start plus half its width.
Center(member) == member.position.along + Half(actual_dimensions(member.lumber_size)[1])

\* The rough openings the returned layout was framed around.
FramedOpenings == {out_rough[i].value : i \in Own}

\* The members of the returned layout.
Members == {out_framing.value.members[i] : i \in 1..Len(out_framing.value.members)}

LumberWidth == actual_dimensions(in_wall.framing_config.lumber_size)[1]

\* C2: in a returned layout no Stud has its center within
\* [ro_left - 2*lumber_width, ro_right + 2*lumber_width] of a rough opening.
C2_NoStudCenterInExclusionZone ==
    (Generated /\ out_framing.kind = "Ok") =>
        \A m \in Members : \A ro \in FramedOpenings :
            m.member_type = "Stud" =>
                ~(/\ Center(m) >= RoLeft(ro) - 2 * LumberWidth
                  /\ Center(m) <= RoRight(ro) + 2 * LumberWidth)

\* C3: when the wall and every one of its openings pass validation, the
\* generator fails with OverlappingOpenings exactly when some pair of rough
\* openings has a gap under 3.5in, and the error names such a pair (both ids,
\* the first such pair in slice order).
C3_OverlapIffGapTooSmall ==
    (Generated /\ ~DimsBad /\ \A i \in Own : out_rough[i].kind = "Ok") =>
        /\ (out_framing.kind = "OverlappingOpenings") <=> (ClosePairs # {})
        /\ (ClosePairs = {}) => out_framing.kind = "Ok"
        /\ (ClosePairs # {}) =>
            \E p \in ClosePairs :
                /\ out_framing = OverlappingOpenings(<<in_openings[p[1]].id,
                                                       in_openings[p[2]].id>>)
                /\ \A q \in ClosePairs : p[1] < q[1] \/ (p[1] = q[1] /\ p[2] <= q[2])

\* Two 36in windows with centers 10in apart, both within the wall: the generator
\* returned OverlappingOpenings naming both.
C3_Witness ==
    /\ Generated
    /\ Len(in_openings) = 2
    /\ \A i \in {1, 2} :
            /\ in_openings[i].opening_type = "Window"
            /\ in_openings[i].width = In(36)
            /\ in_openings[i].wall_id = in_wall.id
            /\ out_rough[i].kind = "Ok"
    /\ out_rough[2].value.position_along_wall - out_rough[1].value.position_along_wall
            = In(10)
    /\ out_framing = OverlappingOpenings(<<in_openings[1].id, in_openings[2].id>>)

\* Two openings of the wall exactly 3.5in apart: a layout was returned.
C3_WitnessExactGap ==
    /\ Generated
    /\ Own = {1, 2}
    /\ out_framing.kind = "Ok"
    /\ Gap(out_rough[1].value, out_rough[2].value) = 28

\* C4: compute_rough_opening fails with OpeningOutOfBounds (with the opening id)
\* exactly when the tolerance-expanded opening reaches past the wall start or
\* end; otherwise with OpeningTooLarge exactly when the expanded height exceeds
\* the wall height; a rough opening it returns lies within [0, wall_length] and
\* is no higher than the wall.
C4_RoughOpeningValidation ==
    Generated =>
        \A i \in 1..Len(in_openings) :
            LET o == in_openings[i]
                r == out_rough[i]
                center == AlongWall(o.position_along_wall, in_wall.length)
                width == o.width + (IF o.opening_type = "Window" THEN In(1) ELSE In(2))
                height == o.height + 4
                out_of_bounds == \/ center - Half(width) < 0
                                 \/ center + Half(width) > in_wall.length
            IN /\ (r.kind = "OpeningOutOfBounds") <=> out_of_bounds
               /\ out_of_bounds => r = OpeningOutOfBounds(o.id)
               /\ ~out_of_bounds =>
                    /\ (r.kind = "OpeningTooLarge") <=> (height > in_wall.height)
                    /\ (height > in_wall.height) => r = OpeningTooLarge(o.id)
                    /\ (height <= in_wall.height) => r.kind = "Ok"
               /\ r.kind = "Ok" =>
                    /\ RoLeft(r.value) >= 0
                    /\ RoRight(r.value) <= in_wall.length
                    /\ r.value.height <= in_wall.height

\* An opening whose rough opening starts exactly at the wall start and is
\* exactly as high as the wall was accepted.
C4_Witness ==
    /\ Generated
    /\ Len(in_openings) = 1
    /\ out_rough[1].kind = "Ok"
    /\ RoLeft(out_rough[1].value) = 0
    /\ out_rough[1].value.height = in_wall.height

\* The members of a layout as a sequence.
LayoutMembers == out_framing.value.members

RECURSIVE BoardFeetUpTo(_)
\* (width * depth / 12) * (length / 12) summed over the first n members, in
\* units of 1/(144 * 8^3) board foot.
BoardFeetUpTo(n) ==
    IF n = 0 THEN 0
    ELSE LET m == LayoutMembers[n]
             width == actual_dimensions(m.lumber_size)[1]
             depth == actual_dimensions(m.lumber_size)[2]
         IN BoardFeetUpTo(n - 1) + width * depth * m.length

\* C12: a layout returned by generate_wall_framing, and a layout right after
\* recalculate_totals(), has stud_count equal to the number of its members typed
\* Stud, KingStud, JackStud or CrippleStud and total_board_feet equal to the sum
\* of its members' board feet.
C12_TotalsAuthoritative ==
    (gen_pc \in {"done", "recalculated"} /\ out_framing.kind = "Ok") =>
        /\ out_framing.value.stud_count =
                Cardinality({i \in 1..Len(LayoutMembers) :
                    LayoutMembers[i].member_type
                        \in {"Stud", "KingStud", "JackStud", "CrippleStud"}})
        /\ out_framing.value.total_board_feet = BoardFeetUpTo(Len(LayoutMembers))

\* A returned layout with an opening: its stud_count counts king, jack and
\* cripple studs besides the regular studs.
C12_Witness ==
    /\ Generated
    /\ out_framing.kind = "Ok"
    /\ \E i \in 1..Len(LayoutMembers) : LayoutMembers[i].member_type = "CrippleStud"
    /\ out_framing.value.stud_count >
            Cardinality({i \in 1..Len(LayoutMembers) :
                            LayoutMembers[i].member_type = "Stud"})
    /\ out_framing.value.total_board_feet > 0

\* A king stud was added with add_member, which left stud_count one short;
\* recalculate_totals is still to be called.
C12_WitnessStale ==
    /\ gen_pc = "recalculate_totals"
    /\ out_framing.value.stud_count + 1 =
            Cardinality({i \in 1..Len(LayoutMembers) :
                            is_vertical(LayoutMembers[i].member_type)})

\* C13: every member of a layout returned by generate_wall_framing has
\* length > 0, for every wall that passes validation.
C13_EveryMemberHasPositiveLength ==
    (Generated /\ out_framing.kind = "Ok") =>
        \A i \in 1..Len(LayoutMembers) : LayoutMembers[i].length > 0

\* Where a member starts and ends along the wall: a vertical member is as wide
\* as its lumber, a horizontal one as long as its length.
AlongStart(member) == member.position.along
AlongEnd(member) ==
    member.position.along
        + (IF is_vertical(member.member_type)
           THEN actual_dimensions(member.lumber_size)[1]
           ELSE member.length)

\* C14: in a returned layout no member generated for one opening overlaps along
\* the wall the framed span of a different opening, from the outer face of its
\* left king stud (ro_left - lumber_width) to the outer face of its right king
\* stud (ro_right + lumber_width).
C14_NoMemberInOtherOpeningsSpan ==
    (Generated /\ out_framing.kind = "Ok") =>
        \A i \in 1..Len(LayoutMembers) : \A ro \in FramedOpenings :
            LET m == LayoutMembers[i]
            IN (m.opening_id # None /\ m.opening_id # ro.opening_id) =>
                    ~(/\ AlongStart(m) < RoRight(ro) + LumberWidth
                      /\ AlongEnd(m) > RoLeft(ro) - LumberWidth)

\* What the claim compares of a member: everything but its ids.
MemberShape(m) ==
    [member_type |-> m.member_type, lumber_size |-> m.lumber_size,
     material |-> m.material, position |-> m.position, length |-> m.length,
     rotation |-> m.rotation]

\* What the claim compares of an outcome: the error kind, or the layout's
\* members in order, its counts and its totals.
Outcome(result) ==
    IF result.kind = "Ok"
    THEN [kind |-> "Ok",
          members |-> [i \in 1..Len(result.value.members) |->
                            MemberShape(result.value.members[i])],
          stud_spacing |-> result.value.stud_spacing,
          double_top_plate |-> result.value.double_top_plate,
          lumber_size |-> result.value.lumber_size,
          stud_count |-> result.value.stud_count,
          total_board_feet |-> result.value.total_board_feet]
    ELSE [kind |-> result.kind]

\* The type, position, width and height of the openings of the wall, in order.
OwnShapes(openings) ==
    LET own == SelectSeq(openings, LAMBDA o : o.wall_id = in_wall.id)
    IN [i \in 1..Len(own) |->
            <<own[i].opening_type, own[i].position_along_wall, own[i].width,
              own[i].height>>]

\* C15: two calls of generate_wall_framing on the same wall whose own openings
\* agree in type, position, width and height give the same outcome (error kind,
\* or members in order, counts and totals), whatever the assembly, the openings
\* of other walls and the sill heights.
C15_SameOutcomeOnAgreeingInputs ==
    (gen_pc = "generated_again" /\ OwnShapes(again_openings) = OwnShapes(in_openings)) =>
        Outcome(again_framing) = Outcome(out_framing)

\* A layout with an opening was returned twice, the second time with two
\* openings of another wall in the slice.
C15_Witness ==
    /\ gen_pc = "generated_again"
    /\ OwnShapes(again_openings) = OwnShapes(in_openings)
    /\ Len(OwnShapes(in_openings)) = 1
    /\ Len(again_openings) = 3
    /\ out_framing.kind = "Ok"
    /\ again_framing.kind = "Ok"

\* The same error was returned twice, the second time with another assembly.
C15_WitnessError ==
    /\ gen_pc = "generated_again"
    /\ again_assembly # in_assembly
    /\ out_framing.kind = "OverlappingOpenings"
    /\ again_framing.kind = "OverlappingOpenings"
    /\ again_framing # out_framing

\* A layout was returned twice, the second time with other sill heights.
C15_WitnessSill ==
    /\ gen_pc = "generated_again"
    /\ Len(in_openings) = 2
    /\ \A i \in 1..2 : again_openings[i].sill_height # in_openings[i].sill_height
    /\ out_framing.kind = "Ok"

\* How many members of the returned layout carry the opening's id and are of the type.
CountFor(opening_id, member_type) ==
    Cardinality({i \in 1..Len(LayoutMembers) :
                    /\ LayoutMembers[i].opening_id = opening_id
                    /\ LayoutMembers[i].member_type = member_type})

\* C16: in a returned layout the members carrying the id of an opening of the
\* wall are exactly 2 king studs, 2 * jack_stud_count jack studs, 1 header, its
\* cripple studs and, for a Window only, 1 sill (none for a Door or Other);
\* plates, regular studs and fire blocking carry no opening id. A 36in x 48in
\* window centered on a 144in wall gives 2 king studs, at least 2 jack studs,
\* 1 header, 1 sill and at least 1 cripple stud.
C16_MembersPerOpening ==
    (Generated /\ out_framing.kind = "Ok") =>
        /\ \A i \in Own :
            LET o == in_openings[i]
                ro == out_rough[i].value
            IN /\ CountFor(o.id, "KingStud") = 2
               /\ CountFor(o.id, "JackStud") = 2 * ro.jack_stud_count
               /\ CountFor(o.id, "Header") = 1
               /\ CountFor(o.id, "Sill") = (IF o.opening_type = "Window" THEN 1 ELSE 0)
               /\ \A t \in {"Stud", "BottomPlate", "TopPlate", "DoubleTopPlate",
                            "FireBlocking"} : CountFor(o.id, t) = 0
               /\ (/\ o.opening_type = "Window"
                   /\ o.width = In(36)
                   /\ o.height = In(48)
                   /\ o.position_along_wall = 4
                   /\ in_wall.length = In(144)) =>
                        /\ CountFor(o.id, "JackStud") >= 2
                        /\ CountFor(o.id, "CrippleStud") >= 1
        /\ \A k \in 1..Len(LayoutMembers) :
            LET m == LayoutMembers[k]
            IN /\ m.member_type \in {"Stud", "BottomPlate", "TopPlate", "DoubleTopPlate",
                                     "FireBlocking"} => m.opening_id = None
               /\ m.member_type \in {"KingStud", "JackStud", "Header", "Sill",
                                     "CrippleStud"} =>
                        \E i \in Own : m.opening_id = in_openings[i].id

\* A 36in x 48in window centered on a 144in wall with fire blocking was framed.
C16_Witness ==
    /\ Generated
    /\ out_framing.kind = "Ok"
    /\ in_wall.length = In(144)
    /\ in_wall.framing_config.fire_blocking_required
    /\ Len(in_openings) = 1
    /\ in_openings[1].opening_type = "Window"
    /\ in_openings[1].width = In(36)
    /\ in_openings[1].height = In(48)
    /\ in_openings[1].position_along_wall = 4
    /\ CountFor(1, "CrippleStud") >= 1
    /\ \E k \in 1..Len(LayoutMembers) : LayoutMembers[k].member_type = "FireBlocking"

\* A door with two jack studs a side was framed: four jack studs and no sill.
C16_WitnessDoor ==
    /\ Generated
    /\ out_framing.kind = "Ok"
    /\ Len(in_openings) = 1
    /\ in_openings[1].opening_type = "Door"
    /\ CountFor(1, "JackStud") = 4
    /\ CountFor(1, "Sill") = 0

\* An opening of type Other was framed.
C16_WitnessOther ==
    /\ Generated
    /\ out_framing.kind = "Ok"
    /\ Len(in_openings) = 1
    /\ in_openings[1].opening_type = "Other"
    /\ CountFor(1, "KingStud") = 2

\* How many members of the returned layout have one of the types.
CountOfTypes(member_types) ==
    Cardinality({i \in 1..Len(LayoutMembers) :
                    LayoutMembers[i].member_type \in member_types})

\* generate_wall_framing has returned for a 120in x 96in wall with the default
\* config (16in on-center, 2x6, double top plate) and no openings.
SimpleWall ==
    /\ Generated
    /\ in_wall.length = In(120)
    /\ in_wall.height = In(96)
    /\ in_wall.framing_config = exterior
    /\ in_openings = << >>

\* C17 as stated: the 120in x 96in wall with the default config and no openings
\* gets a layout with exactly 3 plates and a stud count in [6, 8].
C17_SimpleWallSixToEightStuds ==
    SimpleWall =>
        /\ out_framing.kind = "Ok"
        /\ CountOfTypes({"BottomPlate", "TopPlate", "DoubleTopPlate"}) = 3
        /\ CountOfTypes({"Stud"}) \in 6..8
        /\ out_framing.value.stud_count \in 6..8

\* C17 amended: the 120in x 96in wall with the default config and no openings
\* gets a layout with exactly 3 plates and exactly 9 studs: 8 on the 16in grid
\* from 0in to 112in and the end stud at 118.5in.
C17_SimpleWallNineStuds ==
    SimpleWall =>
        /\ out_framing.kind = "Ok"
        /\ CountOfTypes({"BottomPlate", "TopPlate", "DoubleTopPlate"}) = 3
        /\ CountOfTypes({"Stud"}) = 9
        /\ out_framing.value.stud_count = 9
        /\ {LayoutMembers[i].position.along :
                i \in {k \in 1..Len(LayoutMembers) : LayoutMembers[k].member_type = "Stud"}}
             = {In(16) * k : k \in 0..7} \cup {In(120) - 12}

\* The layout of the 120in x 96in wall was returned.
C17_Witness ==
    /\ SimpleWall
    /\ out_framing.kind = "Ok"
    /\ Len(LayoutMembers) = 12

\* C20: the rough opening of an opening has position = position_along_wall *
\* wall length; for a Window width + 1in, height + 0.5in and requires_sill; for
\* a Door or Other opening width + 2in, height + 0.5in and no sill;
\* jack_stud_count is 2 iff the expanded width is over 48in (1 at exactly 48in);
\* header_depth is 7.25in; header_type is size_header of the expanded width and
\* the wall's load-bearing flag.
C20_RoughOpeningDerivation ==
    Generated =>
        \A i \in 1..Len(in_openings) :
            out_rough[i].kind = "Ok" =>
                LET o == in_openings[i]
                    ro == out_rough[i].value
                    is_window == o.opening_type = "Window"
                IN /\ ro.opening_id = o.id
                   /\ ro.position_along_wall * 8 = o.position_along_wall * in_wall.length
                   /\ ro.width = o.width + (IF is_window THEN In(1) ELSE In(2))
                   /\ ro.height = o.height + 4
                   /\ ro.requires_sill <=> is_window
                   /\ ro.jack_stud_count \in {1, 2}
                   /\ (ro.jack_stud_count = 2) <=> (ro.width > In(48))
                   /\ (ro.width = In(48)) => ro.jack_stud_count = 1
                   /\ ro.header_depth = 58
                   /\ ro.header_type =
                        size_header(ro.width, in_wall.framing_config.is_load_bearing)

\* A window 47in wide got a rough opening exactly 48in wide, with one jack stud
\* a side and a sill.
C20_Witness ==
    /\ Generated
    /\ Len(in_openings) = 1
    /\ in_openings[1].opening_type = "Window"
    /\ out_rough[1].kind = "Ok"
    /\ out_rough[1].value.width = In(48)
    /\ out_rough[1].value.jack_stud_count = 1
    /\ out_rough[1].value.requires_sill

\* An opening of type Other 47in wide got a rough opening 49in wide, with two
\* jack studs a side and no sill.
C20_WitnessOther ==
    /\ Generated
    /\ Len(in_openings) = 1
    /\ in_openings[1].opening_type = "Other"
    /\ out_rough[1].kind = "Ok"
    /\ out_rough[1].value.width = In(49)
    /\ out_rough[1].value.jack_stud_count = 2
    /\ ~out_rough[1].value.requires_sill

\* ------------------------------------------ claims on headers (SpecHeader)

\* size_header has returned.
HeaderSized == gen_pc # "size_header" /\ in_span # None

\* C18: size_header(span, is_load_bearing) gives, not load-bearing, DoubleLumber
\* for span <= 48in and TripleLumber above; load-bearing, DoubleLumber for
\* span <= 36in, TripleLumber for span <= 60in, LVL for span <= 96in and PSL
\* above; never SteelLintel or Glulam. size_header(36, false) = DoubleLumber,
\* size_header(72, true) = LVL, size_header(120, true) = PSL.
C18_SizeHeaderTable ==
    HeaderSized =>
        /\ ~in_is_load_bearing =>
            /\ (in_span <= In(48)) => out_header_type = "DoubleLumber"
            /\ (in_span > In(48)) => out_header_type = "TripleLumber"
        /\ in_is_load_bearing =>
            /\ (in_span <= In(36)) => out_header_type = "DoubleLumber"
            /\ (in_span > In(36) /\ in_span <= In(60)) => out_header_type = "TripleLumber"
            /\ (in_span > In(60) /\ in_span <= In(96)) => out_header_type = "LVL"
            /\ (in_span > In(96)) => out_header_type = "PSL"
        /\ out_header_type \notin {"SteelLintel", "Glulam"}
        /\ (in_span = In(36) /\ ~in_is_load_bearing) => out_header_type = "DoubleLumber"
        /\ (in_span = In(72) /\ in_is_load_bearing) => out_header_type = "LVL"
        /\ (in_span = In(120) /\ in_is_load_bearing) => out_header_type = "PSL"

\* size_header(96, true) has returned LVL: the breakpoint is inclusive.
C18_Witness ==
    /\ HeaderSized
    /\ in_span = In(96)
    /\ in_is_load_bearing
    /\ out_header_type = "LVL"

\* size_header(120, true) has returned PSL.
C18_WitnessPSL ==
    /\ HeaderSized
    /\ in_span = In(120)
    /\ in_is_load_bearing
    /\ out_header_type = "PSL"

\* size_header_lumber has returned.
HeaderLumberSized == gen_pc \notin {"size_header", "size_header_lumber"} /\ in_span # None

\* The table of 48/72/96/120in breakpoints: 2x6, 2x8, 2x10, 2x12, and
\* Custom{1.75, 11.875} above 120in.
LumberTable(span) ==
    CASE span <= In(48) -> [kind |-> "TwoBySix"]
      [] span > In(48) /\ span <= In(72) -> [kind |-> "TwoByEight"]
      [] span > In(72) /\ span <= In(96) -> [kind |-> "TwoByTen"]
      [] span > In(96) /\ span <= In(120) -> [kind |-> "TwoByTwelve"]
      [] span > In(120) -> [kind |-> "Custom", width |-> 14, depth |-> 95]

\* The Header of the framed opening has the lumber size size_header_lumber
\* returned for the tolerance-expanded width.
HeaderMemberSized ==
    (Generated /\ in_span # None /\ out_framing.kind = "Ok" /\ in_openings # << >>) =>
        /\ out_rough[1].value.width = in_span
        /\ \E i \in 1..Len(LayoutMembers) :
                /\ LayoutMembers[i].member_type = "Header"
                /\ LayoutMembers[i].opening_id = in_openings[1].id
        /\ \A i \in 1..Len(LayoutMembers) :
                LayoutMembers[i].member_type = "Header" =>
                    LayoutMembers[i].lumber_size = out_header_lumber

\* C19 as stated: size_header_lumber follows the table of 48/72/96/120in
\* breakpoints for every span and either value of the load-bearing flag, and
\* the Header of each opening gets this size, computed from the expanded width.
C19_LumberTableEitherFlag ==
    /\ HeaderLumberSized => out_header_lumber = LumberTable(in_span)
    /\ HeaderMemberSized

\* C19 amended: size_header_lumber follows the table of 48/72/96/120in
\* breakpoints when load-bearing; when not load-bearing it gives 2x6 for
\* span <= 48in and 2x8 for every span above; the Header of each opening gets
\* this size, computed from the expanded width and the config's flag.
C19_LumberTableLoadBearingOnly ==
    /\ HeaderLumberSized =>
        /\ in_is_load_bearing => out_header_lumber = LumberTable(in_span)
        /\ ~in_is_load_bearing =>
            /\ (in_span <= In(48)) => out_header_lumber = [kind |-> "TwoBySix"]
            /\ (in_span > In(48)) => out_header_lumber = [kind |-> "TwoByEight"]
    /\ HeaderMemberSized

\* A door with a rough opening 100in wide was framed in a wall that is not
\* load-bearing: its Header is a 2x8.
C19_Witness ==
    /\ Generated
    /\ in_span = In(100)
    /\ ~in_is_load_bearing
    /\ out_framing.kind = "Ok"
    /\ \E i \in 1..Len(LayoutMembers) :
            /\ LayoutMembers[i].member_type = "Header"
            /\ LayoutMembers[i].lumber_size = [kind |-> "TwoByEight"]

\* A door with a rough opening over 120in wide was framed in a load-bearing
\* wall: its Header has the Custom 1.75in x 11.875in size.
C19_WitnessCustom ==
    /\ Generated
    /\ in_span > In(120)
    /\ in_is_load_bearing
    /\ out_framing.kind = "Ok"
    /\ \E i \in 1..Len(LayoutMembers) :
            /\ LayoutMembers[i].member_type = "Header"
            /\ LayoutMembers[i].lumber_size = [kind |-> "Custom", width |-> 14, depth |-> 95]

\* ------------------------------ claims on the placement of members (SpecGen)

\* A layout has been returned.
Framed == Generated /\ out_framing.kind = "Ok"

LumberDepth == actual_dimensions(in_wall.framing_config.lumber_size)[2]

\* plate_count and the stud height wall.height - plate_count * lumber_depth.
PlateCount == IF in_wall.framing_config.double_top_plate THEN 3 ELSE 2
StudHeight == in_wall.height - PlateCount * LumberDepth

\* The z on which studs stand: the top of the bottom plate.
StudBaseZ == in_wall.base_offset + LumberDepth

\* The members of the returned layout of a type.
MembersOfType(member_type) == {m \in Members : m.member_type = member_type}

\* C21: a returned layout has exactly one BottomPlate at the wall base, exactly
\* one TopPlate at height - plate depth, and exactly one DoubleTopPlate one
\* plate depth below the top plate iff double_top_plate is set (3 plates with
\* it, 2 without, none for the interior-partition config); every plate runs the
\* full wall length; a stud of height wall.height - plate_count * lumber_depth
\* standing on the bottom plate ends at the underside of the lowest top plate.
C21_Plates ==
    Framed =>
        LET plates == {"BottomPlate", "TopPlate", "DoubleTopPlate"}
            top_z == in_wall.base_offset + in_wall.height - LumberDepth
            lowest_top_z == IF in_wall.framing_config.double_top_plate
                            THEN top_z - LumberDepth ELSE top_z
        IN /\ CountOfTypes({"BottomPlate"}) = 1
           /\ CountOfTypes({"TopPlate"}) = 1
           /\ CountOfTypes({"DoubleTopPlate"})
                = (IF in_wall.framing_config.double_top_plate THEN 1 ELSE 0)
           /\ CountOfTypes(plates) = PlateCount
           /\ in_wall.framing_config = interior_partition =>
                    CountOfTypes({"DoubleTopPlate"}) = 0
           /\ \A m \in MembersOfType("BottomPlate") : m.position.z = in_wall.base_offset
           /\ \A m \in MembersOfType("TopPlate") : m.position.z = top_z
           /\ \A m \in MembersOfType("DoubleTopPlate") : m.position.z = top_z - LumberDepth
           /\ \A m \in Members :
                m.member_type \in plates =>
                    /\ m.position.along = 0
                    /\ m.length = in_wall.length
                    /\ m.opening_id = None
           /\ StudBaseZ + StudHeight = lowest_top_z

\* A raised wall with a double top plate was framed: its three plates are at
\* 10in, 10in + 96in - 5.5in and one plate depth below that.
C21_Witness ==
    /\ Framed
    /\ in_wall.base_offset = In(10)
    /\ in_wall.framing_config = exterior
    /\ {m.position.z : m \in {x \in Members :
            x.member_type \in {"BottomPlate", "TopPlate", "DoubleTopPlate"}}}
         = {In(10), In(106) - 44, In(106) - 88}

\* A wall with the interior-partition config was framed: two plates.
C21_WitnessPartition ==
    /\ Framed
    /\ in_wall.framing_config = interior_partition
    /\ CountOfTypes({"BottomPlate", "TopPlate", "DoubleTopPlate"}) = 2

\* The position is inside the exclusion zone of an opening of the layout: the
\* rough opening expanded by 2 * lumber_width on each side.
InExclusionZone(position) ==
    \E ro \in FramedOpenings :
        /\ position >= RoLeft(ro) - 2 * LumberWidth
        /\ position <= RoRight(ro) + 2 * LumberWidth

\* The positions 0, s, 2s, ... that do not exceed wall_length - lumber_width and
\* are outside every exclusion zone.
GridStudPositions ==
    {p \in {k * in_wall.framing_config.stud_spacing :
                k \in 0..(in_wall.length \div in_wall.framing_config.stud_spacing)} :
        /\ p <= in_wall.length - LumberWidth
        /\ ~InExclusionZone(p)}

\* The gap the regular grid leaves before the end stud's place: from the last
\* multiple of the spacing at or below wall_length - lumber_width to it.
EndGap ==
    LET end_start == in_wall.length - LumberWidth
        spacing == in_wall.framing_config.stud_spacing
    IN end_start - (end_start \div spacing) * spacing

\* The studs of the layout are the grid studs, the end stud if `with_end_stud`,
\* and nothing else; each stands on the bottom plate and has the stud height.
StudsAre(with_end_stud) ==
    /\ {m.position.along : m \in MembersOfType("Stud")}
         = GridStudPositions
            \cup (IF with_end_stud THEN {in_wall.length - LumberWidth} ELSE {})
    /\ CountOfTypes({"Stud"}) = Cardinality({m.position.along : m \in MembersOfType("Stud")})
    /\ \A m \in MembersOfType("Stud") :
            /\ m.length = StudHeight
            /\ m.position.z = StudBaseZ
            /\ m.lumber_size = in_wall.framing_config.lumber_size

\* C22 as stated: the Studs stand exactly at the grid positions up to
\* wall_length - lumber_width outside every exclusion zone, plus an end stud at
\* wall_length - lumber_width exactly when the grid leaves a gap of more than one
\* stud width before it and the wall end is not inside an exclusion zone; every
\* Stud has height wall.height - plate_count * lumber_depth.
C22_StudsOnGridEndStudByWallEnd ==
    Framed => StudsAre(EndGap > LumberWidth /\ ~InExclusionZone(in_wall.length))

\* C22 amended: as stated, but the end stud is placed exactly when the gap is
\* more than one stud width and the end stud's center, wall_length -
\* lumber_width / 2, is not inside an exclusion zone.
C22_StudsOnGridEndStudByCenter ==
    Framed =>
        StudsAre(/\ EndGap > LumberWidth
                 /\ ~InExclusionZone(in_wall.length - Half(LumberWidth)))

\* A wall was framed whose end is outside the exclusion zone of its opening but
\* whose end stud would have its center inside it: there is no end stud.
C22_Witness ==
    /\ Framed
    /\ Own # {}
    /\ EndGap > LumberWidth
    /\ ~InExclusionZone(in_wall.length)
    /\ InExclusionZone(in_wall.length - Half(LumberWidth))
    /\ \A m \in MembersOfType("Stud") : m.position.along # in_wall.length - LumberWidth

\* A wall with an opening was framed with grid studs on both sides of the
\* opening and an end stud.
C22_WitnessEndStud ==
    /\ Framed
    /\ Own # {}
    /\ \E m \in MembersOfType("Stud") : m.position.along = in_wall.length - LumberWidth
    /\ \E ro \in FramedOpenings :
        /\ \E m \in MembersOfType("Stud") : m.position.along < RoLeft(ro)
        /\ \E m \in MembersOfType("Stud") :
                m.position.along > RoRight(ro) /\ m.position.along < in_wall.length - In(16)

\* The members of the returned layout of a type that carry the opening's id.
MembersFor(opening_id, member_type) ==
    {m \in Members : m.opening_id = opening_id /\ m.member_type = member_type}

\* The least and the greatest of a non-empty set of numbers.
Least(numbers) == CHOOSE x \in numbers : \A y \in numbers : x <= y
Greatest(numbers) == CHOOSE x \in numbers : \A y \in numbers : x >= y

\* C23: the header of each opening runs along the wall exactly from the outer
\* face of the opening's outermost left jack stud to the outer face of its
\* outermost right jack stud, with length = rough opening width +
\* 2 * jack_stud_count * lumber_width, so it ends at the right king stud and
\* never beyond it; it is placed at header_bottom_z = stud_base_z + stud_height
\* - header_depth, which is also the top of every jack stud.
C23_HeaderSpansJackToJack ==
    Framed =>
        \A ro \in FramedOpenings :
            LET jacks == MembersFor(ro.opening_id, "JackStud")
                kings == MembersFor(ro.opening_id, "KingStud")
                header_bottom_z == StudBaseZ + StudHeight - ro.header_depth
            IN \A header \in MembersFor(ro.opening_id, "Header") :
                /\ AlongStart(header) = Least({AlongStart(j) : j \in jacks})
                /\ AlongEnd(header) = Greatest({AlongEnd(j) : j \in jacks})
                /\ header.length = ro.width + 2 * ro.jack_stud_count * LumberWidth
                /\ AlongEnd(header) <= Greatest({AlongEnd(k) : k \in kings})
                /\ header.position.z = header_bottom_z
                /\ \A j \in jacks : j.position.z + j.length = header_bottom_z

\* The places in the slice of the wall's own Window openings.
OwnWindows == {i \in Own : in_openings[i].opening_type = "Window"}

C25_CripplesOnWallGrid ==
    Framed =>
        \A i \in Own :
            LET ro == out_rough[i].value
                header_bottom_z == StudBaseZ + StudHeight - ro.header_depth
                sill_z == header_bottom_z - ro.height
            IN \A cripple \in MembersFor(ro.opening_id, "CrippleStud") :
                /\ RoLeft(ro) < AlongStart(cripple)
                /\ AlongStart(cripple) < RoRight(ro)
                /\ AlongStart(cripple) % in_wall.framing_config.stud_spacing = 0
                /\ \/ /\ cripple.position.z = header_bottom_z + ro.header_depth
                      /\ cripple.position.z + cripple.length = StudBaseZ + StudHeight
                   \/ /\ in_openings[i].opening_type = "Window"
                      /\ cripple.position.z = StudBaseZ
                      /\ cripple.position.z + cripple.length = sill_z
                /\ cripple.length > LumberDepth

\* The 120in segments of the wall that are not wholly inside a rough opening,
\* as <<start, end>>.
BlockedSegments ==
    {seg \in {<<k * FIRE_BLOCK_INTERVAL,
                Min((k + 1) * FIRE_BLOCK_INTERVAL, in_wall.length)>> :
                    k \in 0..(in_wall.length \div FIRE_BLOCK_INTERVAL)} :
        /\ seg[1] < in_wall.length
        /\ ~\E ro \in FramedOpenings : seg[1] >= RoLeft(ro) /\ seg[2] <= RoRight(ro)}

\* The stud-spacing boundaries (multiples of the spacing) within a segment.
Boundaries(seg) ==
    {p \in {k * in_wall.framing_config.stud_spacing :
                k \in 0..(in_wall.length \div in_wall.framing_config.stud_spacing)} :
        seg[1] <= p /\ p < seg[2]}

\* C26: FireBlocking members exist only when fire_blocking_required is set;
\* then, for each 120in segment not wholly inside an opening, there is a
\* blocking member at each stud-spacing boundary within the segment except
\* those inside an opening's exclusion zone (opening bounds expanded by
\* 2 * lumber_width on each side), and nowhere else; each is at
\* z = base_offset + lumber_depth + stud_height / 2, is one stud bay long and
\* does not overlap the neighbouring blocking member.
C26_FireBlocking ==
    Framed =>
        LET blocks == MembersOfType("FireBlocking")
            places == {p \in UNION {Boundaries(seg) : seg \in BlockedSegments} :
                            ~InExclusionZone(p)}
        IN IF ~in_wall.framing_config.fire_blocking_required
           THEN blocks = {}
           ELSE /\ {AlongStart(b) : b \in blocks} = places
                /\ \A b \in blocks :
                    /\ b.position.z = in_wall.base_offset + LumberDepth + Half(StudHeight)
                    /\ b.length = in_wall.framing_config.stud_spacing
                /\ \A a, b \in blocks :
                    AlongStart(a) < AlongStart(b) => AlongEnd(a) <= AlongStart(b)

\* The wall's layout is the one generated from its latest inputs.
LayoutCurrent(w) == layout_rev[w] = wall_rev[w]

\* The scheduler has generated the layout of w, has not yet called mark_clean
\* for it, and an invalidation of w has landed in between.
InvalidatedBeforeMarkClean(w) ==
    sched_pc = "mark_clean" /\ sched_wall = w /\ ~LayoutCurrent(w)

\* C27: under any interleaving of the invalidating calls with the scheduler's
\* poll / generate / mark_clean steps, a wall that is not dirty always has a
\* layout generated from its latest inputs, and an invalidation of a wall that
\* lands after its generation and before its mark_clean leads to the wall being
\* regenerated from its latest inputs.
C27_NoInvalidationLost ==
    /\ [](\A w \in WallIds : ~is_wall_dirty(Self, w) => LayoutCurrent(w))
    /\ \A w \in WallIds : InvalidatedBeforeMarkClean(w) ~> LayoutCurrent(w)

\* The top of a member: a vertical member ends its length above its base; of a
\* horizontal member only the z it is placed at is taken.
TopZ(member) ==
    member.position.z + (IF is_vertical(member.member_type) THEN member.length ELSE 0)

\* C28: every member of a returned layout lies inside the wall: its along-wall
\* extent within [0, wall_length] and its vertical extent within
\* [base_offset, base_offset + wall.height], also for openings whose rough
\* opening touches the wall's start or end.
C28_MembersInsideWall ==
    Framed =>
        \A m \in Members :
            /\ 0 <= AlongStart(m)
            /\ AlongEnd(m) <= in_wall.length
            /\ in_wall.base_offset <= m.position.z
            /\ TopZ(m) <= in_wall.base_offset + in_wall.height

\* C29: the rough opening is clear: no king stud and no jack stud of an opening
\* occupies any part of the open interval (ro_left, ro_right) of that opening.
C29_RoughOpeningClear ==
    Framed =>
        \A ro \in FramedOpenings :
            \A m \in MembersFor(ro.opening_id, "KingStud")
                        \cup MembersFor(ro.opening_id, "JackStud") :
                AlongEnd(m) <= RoLeft(ro) \/ AlongStart(m) >= RoRight(ro)

\* C30: the top of every header is the top of the stud cavity
\* (header_bottom_z + header_depth = stud_base_z + stud_height), so there is no
\* cripple stud above a header; a Door or Other opening has no CrippleStud; every
\* CrippleStud belongs to a Window of the wall, stands on the bottom plate and
\* ends at the underside of that window's sill.
C30_CripplesOnlyBelowWindowSills ==
    Framed =>
        /\ \A i \in Own :
            LET ro == out_rough[i].value
                cripples == MembersFor(ro.opening_id, "CrippleStud")
            IN /\ \A header \in MembersFor(ro.opening_id, "Header") :
                    /\ header.position.z + ro.header_depth = StudBaseZ + StudHeight
                    /\ \A cripple \in cripples : TopZ(cripple) <= header.position.z
               /\ in_openings[i].opening_type # "Window" => cripples = {}
               /\ \A cripple \in cripples :
                    /\ cripple.position.z = StudBaseZ
                    /\ \E sill \in MembersFor(ro.opening_id, "Sill") :
                            TopZ(cripple) = sill.position.z
        /\ \A cripple \in MembersOfType("CrippleStud") :
                \E i \in OwnWindows : cripple.opening_id = out_rough[i].value.opening_id

\* A Window of the wall has been framed with cripple studs below its sill.
C30_Witness ==
    /\ Framed
    /\ \E i \in OwnWindows :
        MembersFor(out_rough[i].value.opening_id, "CrippleStud") # {}

\* A Door of the wall has been framed, with its header and without cripple studs.
C30_WitnessDoor ==
    /\ Framed
    /\ \E i \in Own :
        /\ in_openings[i].opening_type = "Door"
        /\ MembersFor(out_rough[i].value.opening_id, "Header") # {}
        /\ MembersFor(out_rough[i].value.opening_id, "CrippleStud") = {}

====
